---- MODULE Spec2Model ----
(***************************************************************************)
(* A model of rcv_votes: the collection orchestrator                       *)
(* (vote_collector.VoteCollector) driving the Congress.gov fetcher and the *)
(* clerk.house.gov enricher.                                               *)
(*                                                                         *)
(* st is the state of one collect_member_votes call: the locals of         *)
(* collect_member_votes, _collect_congress_votes and                       *)
(* _collect_session_votes under the source's names, the position pc, and   *)
(* history fields (last_outcome, last_key, ...) recording what it did.     *)
(* tw is a second call of the same code, used to compare two runs.         *)
(* call is one call of a function the orchestrator relies on (the          *)
(* fetcher's request loop, a helper of the enricher), looked at on its     *)
(* own: its arguments, its position and what it has done so far.           *)
(***************************************************************************)
EXTENDS Integers, Sequences, FiniteSets, TLC

VARIABLES st, tw, call

vars == <<st, tw, call>>

(***************************************************************************)
(* Bounds of the model.                                                    *)
(***************************************************************************)
\* Vote numbers above MaxVote do not exist at the remote service: no fetch
\* of one returns a response.
MaxVote == 4
\* The target member takes part in at most MaxMatches roll calls of a run.
MaxMatches == 3
\* The largest cap max_votes a caller passes.
MaxCap == 3
\* The ticks of a second: random.uniform(0, 1) is one of 0..Ticks-1 ticks.
Ticks == 4
\* The largest number of seconds a Retry-After header asks for.
MaxRetryAfter == 2
\* The requests made through the client of one container.
MaxRequests == 2

(***************************************************************************)
(* Values.                                                                 *)
(***************************************************************************)
\* Python's None where an int is expected (max_votes: int = None).
None == -1

\* max_consecutive_failures = 5
max_consecutive_failures == 5

\* time.sleep(0.1), the argument in tenths of a second.
PacingDelay == 1

\* A session loop over the first session alone.
Sessions_FirstOnly == <<1>>

\* for session in [1, 2]
Sessions == <<1, 2>>

\* Strings the code inspects character by character are sequences of
\* one-character strings.
Digit == {"0", "1", "2", "3", "4", "5", "6", "7", "8", "9"}

SENTINEL == <<"1", "9", "0", "0", "-", "0", "1", "-", "0", "1">>
D_2023_01_03 == <<"2", "0", "2", "3", "-", "0", "1", "-", "0", "3">>
D_2025_03_03 == <<"2", "0", "2", "5", "-", "0", "3", "-", "0", "3">>

\* A Python value that is a str (chars) or not a str at all (None, an int).
Str(chars) == [is_str |-> TRUE, chars |-> chars]
NotAStr == [is_str |-> FALSE, chars |-> <<>>]

\* int(c) and str(n) for one decimal digit.
DigitChar(n) == <<"0", "1", "2", "3", "4", "5", "6", "7", "8", "9">>[n + 1]
DigitVal(c) == CHOOSE n \in 0..9 : DigitChar(n) = c

\* str(n) for n >= 0.
RECURSIVE ToDigits(_)
ToDigits(n) ==
    IF n < 10 THEN <<DigitChar(n)>>
    ELSE Append(ToDigits(n \div 10), DigitChar(n % 10))

\* int(s) for a string of decimal digits.
RECURSIVE ToInt(_)
ToInt(s) ==
    IF s = <<>> THEN 0
    ELSE 10 * ToInt(SubSeq(s, 1, Len(s) - 1)) + DigitVal(s[Len(s)])

\* s.zfill(width)
Zfill(s, width) ==
    IF Len(s) >= width THEN s
    ELSE [k \in 1..(width - Len(s)) |-> "0"] \o s

(***************************************************************************)
(* Pure helpers of the merge (vote_collector.py 159-171, models.py 29-54). *)
(***************************************************************************)
\* s.split('T')[0]
SplitT0(s) ==
    LET idx == {i \in 1..Len(s) : s[i] = "T"}
    IN  IF idx = {} THEN s
        ELSE SubSeq(s, 1, (CHOOSE i \in idx : \A j \in idx : i <= j) - 1)

\* The ten characters dddd-dd-dd.
DateShape(s) ==
    /\ Len(s) = 10
    /\ \A i \in {1, 2, 3, 4, 6, 7, 9, 10} : s[i] \in Digit
    /\ s[5] = "-"
    /\ s[8] = "-"

\* re.match(r'^\d{4}-\d{2}-\d{2}$', s): Python's $ matches at the end of the
\* string and also just before a newline that ends the string.
ReMatchDate(s) ==
    \/ DateShape(s)
    \/ /\ Len(s) = 11
       /\ s[11] = "\n"
       /\ DateShape(SubSeq(s, 1, 10))

\* A merge that prefers the API question.
MergeQuestion_ApiFirst(scraped_question, vote_question) ==
    IF vote_question # "" THEN vote_question ELSE scraped_question

\* question = scraped_details.question if scraped_details.question
\*            else member_vote.vote_question
MergeQuestion(scraped_question, vote_question) ==
    IF scraped_question # "" THEN scraped_question ELSE vote_question

\* date = scraped_details.date; if date == "1900-01-01": try the API date.
MergeDate(scraped_date, start_date) ==
    IF scraped_date = SENTINEL
    THEN IF start_date.is_str
         THEN LET api_date == SplitT0(start_date.chars)
              IN  IF ReMatchDate(api_date) THEN api_date ELSE scraped_date
         ELSE scraped_date    \* .split raises, "except: pass" keeps the fallback
    ELSE scraped_date

(***************************************************************************)
(* The display URL (vote_collector.py 246-278, web_scraper.py 81-115).     *)
(* A URL is a sequence of pieces: each literal part of the pattern         *)
(* https://clerk\.house\.gov/evs/(\d{4})/roll(\d+)\.xml is one piece, and    *)
(* every other character is a piece of its own.                            *)
(***************************************************************************)
CLERK == "https://clerk.house.gov"
EVS == "/evs/"
ROLL == "/roll"
XML == ".xml"
VOTES == "/Votes/"

\* The end of the longest run of digits of u that starts at a (a - 1 when
\* u[a] is no digit).
DigitRunEnd(u, a) ==
    CHOOSE q \in (a - 1)..Len(u) :
        /\ \A k \in a..q : u[k] \in Digit
        /\ q = Len(u) \/ u[q + 1] \notin Digit

\* The pattern matches u from piece i on.
PatternAt(u, i) ==
    /\ i + 8 <= Len(u)
    /\ u[i] = CLERK
    /\ u[i + 1] = EVS
    /\ \A k \in (i + 2)..(i + 5) : u[k] \in Digit
    /\ u[i + 6] = ROLL
    /\ LET q == DigitRunEnd(u, i + 7)
       IN  /\ q >= i + 7
           /\ q < Len(u)
           /\ u[q + 1] = XML

\* re.search(pattern, u): the groups of the leftmost match.
UrlSearch(u) ==
    LET hits == {i \in 1..Len(u) : PatternAt(u, i)}
    IN  IF hits = {} THEN [found |-> FALSE, year |-> <<>>, roll |-> <<>>]
        ELSE LET i == CHOOSE h \in hits : \A j \in hits : h <= j
             IN  [found |-> TRUE,
                  year  |-> SubSeq(u, i + 2, i + 5),
                  roll  |-> SubSeq(u, i + 7, DigitRunEnd(u, i + 7))]

\* f"https://clerk.house.gov/Votes/{year}{roll_number}" with
\* roll_number = match.group(2).zfill(3)
RcvUrl(m) == <<CLERK, VOTES>> \o m.year \o Zfill(m.roll, 3)

\* A derivation that hands out an empty URL where the pattern does not match.
GenerateRollCallUrl_Blank(source_data_url) ==
    IF source_data_url.is_str /\ UrlSearch(source_data_url.chars).found
    THEN Str(RcvUrl(UrlSearch(source_data_url.chars)))
    ELSE Str(<<>>)

\* A derivation that writes the roll number as it stands in the reference.
GenerateRollCallUrl_Unpadded(source_data_url) ==
    IF source_data_url.is_str /\ UrlSearch(source_data_url.chars).found
    THEN LET m == UrlSearch(source_data_url.chars)
         IN  Str(<<CLERK, VOTES>> \o m.year \o m.roll)
    ELSE source_data_url

\* VoteCollector._generate_roll_call_url: the value it returns. re.search
\* raises TypeError on a value that is not a str; line 276 catches it.
GenerateRollCallUrl(source_data_url) ==
    IF source_data_url.is_str /\ UrlSearch(source_data_url.chars).found
    THEN Str(RcvUrl(UrlSearch(source_data_url.chars)))
    ELSE source_data_url

\* A derivation that falls back to the source reference.
GenerateRcvUrl_Lenient(source_data_url) ==
    [raised |-> "none", url |-> GenerateRollCallUrl(source_data_url)]

\* ClerkHouseGovScraper._generate_rcv_url: the URL it returns or the
\* exception it raises.
GenerateRcvUrl(source_data_url) ==
    IF ~source_data_url.is_str \/ source_data_url.chars = <<>>
    THEN [raised |-> "ValidationError", url |-> NotAStr]
    ELSE IF ~UrlSearch(source_data_url.chars).found
    THEN [raised |-> "ValidationError", url |-> NotAStr]
    ELSE [raised |-> "none",
          url    |-> Str(RcvUrl(UrlSearch(source_data_url.chars)))]

\* VoteRecord.validate: TRUE when __post_init__ raises no ValidationError.
VoteRecordValid(r) ==
    /\ r.congress >= 1
    /\ ReMatchDate(r.date)
    /\ r.roll_call_number >= 1
    /\ r.vote_cast # ""
    /\ r.roll_call_vote_url.is_str

\* The VoteRecord built at vote_collector.py 177-186.
MakeVoteRecord(member_vote, scraped_details) ==
    [congress         |-> member_vote.congress,
     date             |-> MergeDate(scraped_details.date, member_vote.start_date),
     roll_call_number |-> member_vote.roll_call_number,
     vote_cast        |-> member_vote.vote_cast,
     question         |-> MergeQuestion(scraped_details.question,
                                        member_vote.vote_question),
     bill_title       |-> scraped_details.bill_title,
     roll_call_vote_url |-> GenerateRollCallUrl(member_vote.source_data_url)]

(***************************************************************************)
(* The enricher (web_scraper.py): date extraction and extract_vote_details.*)
(* Page text is a sequence of one-character strings.                       *)
(***************************************************************************)
UpperLetters ==
    <<"A", "B", "C", "D", "E", "F", "G", "H", "I", "J", "K", "L", "M", "N", "O", "P", "Q", "R", "S", "T", "U", "V", "W", "X", "Y", "Z">>
LowerLetters ==
    <<"a", "b", "c", "d", "e", "f", "g", "h", "i", "j", "k", "l", "m", "n", "o", "p", "q", "r", "s", "t", "u", "v", "w", "x", "y", "z">>

\* [A-Za-z]
Letter == {UpperLetters[k] : k \in 1..26} \cup {LowerLetters[k] : k \in 1..26}

\* str.lower() on a string of characters.
LowerChar(c) ==
    IF \E k \in 1..26 : UpperLetters[k] = c
    THEN LowerLetters[CHOOSE k \in 1..26 : UpperLetters[k] = c]
    ELSE c

LowerStr(s) == [k \in 1..Len(s) |-> LowerChar(s[k])]

\* month_map.get(abbr): <<>> stands for None.
month_map(abbr) ==
      CASE abbr = <<"j", "a", "n">> -> <<"0", "1">>
        [] abbr = <<"f", "e", "b">> -> <<"0", "2">>
        [] abbr = <<"m", "a", "r">> -> <<"0", "3">>
        [] abbr = <<"a", "p", "r">> -> <<"0", "4">>
        [] abbr = <<"m", "a", "y">> -> <<"0", "5">>
        [] abbr = <<"j", "u", "n">> -> <<"0", "6">>
        [] abbr = <<"j", "u", "l">> -> <<"0", "7">>
        [] abbr = <<"a", "u", "g">> -> <<"0", "8">>
        [] abbr = <<"s", "e", "p">> -> <<"0", "9">>
        [] abbr = <<"o", "c", "t">> -> <<"1", "0">>
        [] abbr = <<"n", "o", "v">> -> <<"1", "1">>
        [] abbr = <<"d", "e", "c">> -> <<"1", "2">>
        [] OTHER -> <<>>

\* r'(\d{1,2})-([A-Za-z]{3})-(\d{4})' matches t from i on, n digits first.
Pattern0At(t, i, n) ==
    /\ i + n + 8 <= Len(t)
    /\ \A k \in i..(i + n - 1) : t[k] \in Digit
    /\ t[i + n] = "-"
    /\ \A k \in (i + n + 1)..(i + n + 3) : t[k] \in Letter
    /\ t[i + n + 4] = "-"
    /\ \A k \in (i + n + 5)..(i + n + 8) : t[k] \in Digit

\* r'(\d{1,2})/(\d{1,2})/(\d{4})' matches t from i on, groups of n1 and n2.
Pattern1At(t, i, n1, n2) ==
    /\ i + n1 + n2 + 5 <= Len(t)
    /\ \A k \in i..(i + n1 - 1) : t[k] \in Digit
    /\ t[i + n1] = "/"
    /\ \A k \in (i + n1 + 1)..(i + n1 + n2) : t[k] \in Digit
    /\ t[i + n1 + n2 + 1] = "/"
    /\ \A k \in (i + n1 + n2 + 2)..(i + n1 + n2 + 5) : t[k] \in Digit

\* r'(\d{4})-(\d{1,2})-(\d{1,2})' matches t from i on, groups of n1 and n2.
Pattern2At(t, i, n1, n2) ==
    /\ i + n1 + n2 + 5 <= Len(t)
    /\ \A k \in i..(i + 3) : t[k] \in Digit
    /\ t[i + 4] = "-"
    /\ \A k \in (i + 5)..(i + n1 + 4) : t[k] \in Digit
    /\ t[i + n1 + 5] = "-"
    /\ \A k \in (i + n1 + 6)..(i + n1 + n2 + 5) : t[k] \in Digit

\* The match re.search returns among the matches <<i, n1, n2>>: the leftmost
\* one, and of those the one with the longest groups (\d{1,2} is greedy).
FirstMatch(hits) ==
    CHOOSE h \in hits : \A j \in hits :
        \/ h[1] < j[1]
        \/ h[1] = j[1] /\ h[2] > j[2]
        \/ h[1] = j[1] /\ h[2] = j[2] /\ h[3] >= j[3]

NoMatch == [found |-> FALSE, groups |-> <<>>]

Search0(t) ==
    LET hits == {h \in (1..Len(t)) \X {1, 2} \X {0} : Pattern0At(t, h[1], h[2])}
    IN  IF hits = {} THEN NoMatch
        ELSE LET i == FirstMatch(hits)[1]
                 n == FirstMatch(hits)[2]
             IN  [found  |-> TRUE,
                  groups |-> <<SubSeq(t, i, i + n - 1),
                               SubSeq(t, i + n + 1, i + n + 3),
                               SubSeq(t, i + n + 5, i + n + 8)>>]

Search1(t) ==
    LET hits == {h \in (1..Len(t)) \X {1, 2} \X {1, 2} :
                    Pattern1At(t, h[1], h[2], h[3])}
    IN  IF hits = {} THEN NoMatch
        ELSE LET i  == FirstMatch(hits)[1]
                 n1 == FirstMatch(hits)[2]
                 n2 == FirstMatch(hits)[3]
             IN  [found  |-> TRUE,
                  groups |-> <<SubSeq(t, i, i + n1 - 1),
                               SubSeq(t, i + n1 + 1, i + n1 + n2),
                               SubSeq(t, i + n1 + n2 + 2, i + n1 + n2 + 5)>>]

Search2(t) ==
    LET hits == {h \in (1..Len(t)) \X {1, 2} \X {1, 2} :
                    Pattern2At(t, h[1], h[2], h[3])}
    IN  IF hits = {} THEN NoMatch
        ELSE LET i  == FirstMatch(hits)[1]
                 n1 == FirstMatch(hits)[2]
                 n2 == FirstMatch(hits)[3]
             IN  [found  |-> TRUE,
                  groups |-> <<SubSeq(t, i, i + 3),
                               SubSeq(t, i + 5, i + n1 + 4),
                               SubSeq(t, i + n1 + 6, i + n1 + n2 + 5)>>]

\* The days of month m of year y.
DaysInMonth(y, m) ==
    IF m \in {4, 6, 9, 11} THEN 30
    ELSE IF m # 2 THEN 31
    ELSE IF y % 4 = 0 /\ (y % 100 # 0 \/ y % 400 = 0) THEN 29
    ELSE 28

\* A validation that accepts every date.
Strptime_Any(formatted_date) == TRUE

\* datetime.strptime(formatted_date, '%Y-%m-%d') raises no ValueError;
\* formatted_date is four digits, two digits and two digits joined by "-".
Strptime(formatted_date) ==
    LET y == ToInt(SubSeq(formatted_date, 1, 4))
        m == ToInt(SubSeq(formatted_date, 6, 7))
        d == ToInt(SubSeq(formatted_date, 9, 10))
    IN  /\ y >= 1
        /\ m \in 1..12
        /\ d \in 1..DaysInMonth(y, m)

\* f"{year}-{month}-{day}"
FormatDate(year, month, day) == year \o <<"-">> \o month \o <<"-">> \o day

\* Lines 198-215: the date of the first D-Mon-YYYY match, <<>> when the loop
\* goes on to the next pattern.
Try0(t) ==
    LET m == Search0(t)
    IN  IF ~m.found THEN <<>>
        ELSE LET day == Zfill(m.groups[1], 2)
                 month_num == month_map(LowerStr(m.groups[2]))
                 formatted_date == FormatDate(m.groups[3], month_num, day)
             IN  IF month_num = <<>> THEN <<>>
                 ELSE IF Strptime(formatted_date) THEN formatted_date
                 ELSE <<>>

\* A second pattern that reads the day first.
Try1_DayFirst(t) ==
    LET m == Search1(t)
    IN  IF ~m.found THEN <<>>
        ELSE LET formatted_date == FormatDate(m.groups[3], Zfill(m.groups[2], 2),
                                              Zfill(m.groups[1], 2))
             IN  IF Strptime(formatted_date) THEN formatted_date ELSE <<>>

\* Lines 217-224: the date of the first M/D/YYYY match.
Try1(t) ==
    LET m == Search1(t)
    IN  IF ~m.found THEN <<>>
        ELSE LET formatted_date == FormatDate(m.groups[3], Zfill(m.groups[1], 2),
                                              Zfill(m.groups[2], 2))
             IN  IF Strptime(formatted_date) THEN formatted_date ELSE <<>>

\* Lines 226-233: the date of the first YYYY-M-D match.
Try2(t) ==
    LET m == Search2(t)
    IN  IF ~m.found THEN <<>>
        ELSE LET formatted_date == FormatDate(m.groups[1], Zfill(m.groups[2], 2),
                                              Zfill(m.groups[3], 2))
             IN  IF Strptime(formatted_date) THEN formatted_date ELSE <<>>

\* ClerkHouseGovScraper._extract_date: <<>> is the empty string.
ExtractDate(html_content) ==
    IF Try0(html_content) # <<>> THEN Try0(html_content)
    ELSE IF Try1(html_content) # <<>> THEN Try1(html_content)
    ELSE Try2(html_content)

\* The outcome of session.get(rcv_url): a transport fault, or a response
\* with a status and a page. A page is its text, searched for the date, and
\* the strings the QUESTION and BILL TITLE patterns find in it ("" for none).
Response(status_code, question, bill_title, text) ==
    [kind |-> "response", status_code |-> status_code,
     question |-> question, bill_title |-> bill_title, text |-> text]

TransportFault(kind) ==
    [kind |-> kind, status_code |-> 0,
     question |-> "", bill_title |-> "", text |-> <<>>]

\* An enricher that lets the fault of the URL derivation through.
ExtractVoteDetails_Propagates(source_data_url, fetch) ==
    IF GenerateRcvUrl(source_data_url).raised # "none"
    THEN [raised |-> GenerateRcvUrl(source_data_url).raised,
          details |-> [question |-> "", bill_title |-> "", date |-> <<>>]]
    ELSE [raised |-> "none",
          details |-> [question |-> "", bill_title |-> "", date |-> SENTINEL]]

\* ClerkHouseGovScraper.extract_vote_details: the ScrapedVoteDetails it
\* returns, or the exception of ScrapedVoteDetails.__post_init__.
ExtractVoteDetails(source_data_url, fetch) ==
    LET extracted == /\ GenerateRcvUrl(source_data_url).raised = "none"
                     /\ fetch.kind = "response"
                     /\ ~(400 <= fetch.status_code /\ fetch.status_code < 600)
        date == IF extracted THEN ExtractDate(fetch.text) ELSE <<>>
        details == [question   |-> IF extracted THEN fetch.question ELSE "",
                    bill_title |-> IF extracted THEN fetch.bill_title ELSE "",
                    date       |-> IF date = <<>> THEN SENTINEL ELSE date]
    IN  IF ReMatchDate(details.date)
        THEN [raised |-> "none", details |-> details]
        ELSE [raised |-> "ValidationError", details |-> details]

(***************************************************************************)
(* Member matching (models.py 87-90, vote_collector.py 227-244).           *)
(***************************************************************************)
\* str.lower() and str.upper() on the names and states of the model.
Lower(s) ==
    CASE s \in {"Doe", "DOE", "doe"}       -> "doe"
      [] s \in {"Smith", "SMITH", "smith"} -> "smith"
      [] s \in {"Roe", "ROE", "roe"}       -> "roe"
      [] s \in {"TX", "tx", "Tx"}          -> "tx"
      [] s \in {"CA", "ca", "Ca"}          -> "ca"
      [] OTHER                             -> s

Upper(s) ==
    CASE s \in {"Doe", "DOE", "doe"}       -> "DOE"
      [] s \in {"Smith", "SMITH", "smith"} -> "SMITH"
      [] s \in {"Roe", "ROE", "roe"}       -> "ROE"
      [] s \in {"TX", "tx", "Tx"}          -> "TX"
      [] s \in {"CA", "ca", "Ca"}          -> "CA"
      [] OTHER                             -> s

\* str.strip() on the names of the model.
Strip(s) ==
    CASE s \in {" Smith", "Smith ", " Smith "} -> "Smith"
      [] OTHER                                -> s

\* MemberSearchCriteria.__post_init__ lines 134-136: the criteria a
\* constructed object holds.
PostInit(last_name, state) ==
    [last_name |-> Strip(last_name), state |-> Upper(Strip(state))]

\* A match that compares the states as they are written.
ValidateForMember_StateExact(vote_data, target_last_name, target_state) ==
    /\ Lower(vote_data.last_name) = Lower(target_last_name)
    /\ vote_data.vote_state = target_state

\* APIVoteData.validate_for_member
ValidateForMember(vote_data, target_last_name, target_state) ==
    /\ Lower(vote_data.last_name) = Lower(target_last_name)
    /\ Upper(vote_data.vote_state) = Upper(target_state)

\* A search that keeps the last matching entry.
FindMemberVote_Last(api_vote_data, last_name, state) ==
    LET hits == {i \in 1..Len(api_vote_data) :
                    ValidateForMember(api_vote_data[i], last_name, state)}
    IN  IF hits = {} THEN 0
        ELSE CHOOSE i \in hits : \A j \in hits : i >= j

\* _find_member_vote: the index of the first matching entry, 0 for None.
FindMemberVote(api_vote_data, last_name, state) ==
    LET hits == {i \in 1..Len(api_vote_data) :
                    ValidateForMember(api_vote_data[i], last_name, state)}
    IN  IF hits = {} THEN 0
        ELSE CHOOSE i \in hits : \A j \in hits : i <= j

(***************************************************************************)
(* The environment: what the fetcher and the enricher can answer.          *)
(***************************************************************************)
\* Status codes of the APIErrors of congress_api.py; 0 stands for an
\* APIError with status_code None (timeout, connection failure).
NoStatus == 0
ApiErrorStatuses == {404, 429, 500, NoStatus}

\* One member entry of a parsed response (APIVoteData), metadata shared.
Entry(last_name, vote_state, meta) ==
    [last_name        |-> last_name,
     vote_state       |-> vote_state,
     congress         |-> meta.congress,
     roll_call_number |-> meta.roll_call_number,
     vote_cast        |-> meta.vote_cast,
     vote_question    |-> meta.vote_question,
     start_date       |-> meta.start_date,
     source_data_url  |-> meta.source_data_url]

GoodMeta(congress, vote_number) ==
    [congress         |-> congress,
     roll_call_number |-> vote_number,
     vote_cast        |-> "Yea",
     vote_question    |-> "Q_API",
     start_date       |-> Str(D_2023_01_03 \o <<"T", "1", "2">>),
     source_data_url  |-> Str(<<CLERK, EVS, "2", "0", "2", "3", ROLL>>
                              \o ToDigits(vote_number) \o <<XML>>)]

\* Vote metadata the service may send for a key.
Metas(congress, vote_number) ==
    LET g == GoodMeta(congress, vote_number)
    IN  {g,
         [g EXCEPT !.vote_cast = ""],
         [g EXCEPT !.roll_call_number = 0]}

\* Parsed responses of a successful fetch: one entry per voting member.
Responses(congress, vote_number) ==
    UNION {{<<Entry("Roe", "CA", m)>>,
            <<Entry("Roe", "TX", m), Entry("DOE", "tx", m)>>}
           : m \in Metas(congress, vote_number)}

\* ScrapedVoteDetails the enricher may return (web_scraper.py 70-79): nothing
\* found, or all three fields found.
NothingScraped == [question |-> "", bill_title |-> "", date |-> SENTINEL]
AllScraped == [question |-> "Q_SCRAPED", bill_title |-> "Title", date |-> D_2025_03_03]

\* The page of a roll call does not change during a run: the pages of the
\* odd roll calls carry the details, those of the even ones carry nothing.
ScrapedSet(vote_number) ==
    IF vote_number % 2 = 1 THEN {AllScraped} ELSE {NothingScraped}

(***************************************************************************)
(* collect_member_votes, _collect_congress_votes, _collect_session_votes   *)
(* as operators from a call's state to its next state.                     *)
(***************************************************************************)
\* A test "max_votes is not None", for which 0 is a cap.
Truthy_ZeroIsCap(max_votes) == max_votes # None

\* "if max_votes": None and 0 are both false.
Truthy(max_votes) == max_votes # None /\ max_votes # 0

\* A budget that is the whole cap at every level.
Remaining_Whole(max_votes, votes) ==
    IF Truthy(max_votes) THEN max_votes ELSE None

\* "max_votes - len(votes) if max_votes else None"
Remaining(max_votes, votes) ==
    IF Truthy(max_votes) THEN max_votes - Len(votes) ELSE None

\* A cap that is never looked at.
CapReached_Never(max_votes, votes) == FALSE

\* "max_votes and len(votes) >= max_votes"
CapReached(max_votes, votes) ==
    Truthy(max_votes) /\ Len(votes) >= max_votes

\* The state of a call of collect_member_votes(search_criteria, _, max_votes).
InitState(last_name, state, congress_numbers, max_votes) ==
    [pc                   |-> "congress_loop",
     last_name            |-> last_name,
     state                |-> state,
     congress_numbers     |-> congress_numbers,
     max_votes            |-> max_votes,
     all_votes            |-> <<>>,
     ci                   |-> 1,
     congress             |-> 0,
     c_max_votes          |-> None,
     congress_votes       |-> <<>>,
     si                   |-> 1,
     session              |-> 0,
     s_max_votes          |-> None,
     session_votes        |-> <<>>,
     vote_number          |-> 1,
     consecutive_failures |-> 0,
     result               |-> <<>>,
     raised               |-> "none",
     \* history: the fetch made by the latest step, if it made one
     last_outcome         |-> "none",
     last_key             |-> <<0, 0, 0>>,
     last_member_vote     |-> 0,
     last_scraped         |-> 0,
     \* history: the source references the latest step handed to
     \* web_scraper.extract_vote_details, in call order
     enriched             |-> <<>>,
     \* history: the durations the latest step slept in the orchestrator
     sleeps               |-> <<>>,
     \* history of the call
     failed_run           |-> 0,
     closed               |-> {},
     n_exhausted          |-> 0,
     discarded            |-> 0,
     scenario             |-> "mock"]

\* The fields of a call's state that are the program's, not history.
Program(s) ==
    [pc |-> s.pc, all_votes |-> s.all_votes, ci |-> s.ci, congress |-> s.congress,
     c_max_votes |-> s.c_max_votes, congress_votes |-> s.congress_votes,
     si |-> s.si, session |-> s.session, s_max_votes |-> s.s_max_votes,
     session_votes |-> s.session_votes, vote_number |-> s.vote_number,
     consecutive_failures |-> s.consecutive_failures,
     result |-> s.result, raised |-> s.raised]

\* The records finished so far in the frames that are live at s.pc.
TotalFinished(s) ==
    CASE s.pc = "vote_loop" ->
             Len(s.all_votes) + Len(s.congress_votes) + Len(s.session_votes)
      [] s.pc = "session_loop" -> Len(s.all_votes) + Len(s.congress_votes)
      [] OTHER -> Len(s.all_votes)

\* A step that calls no fetcher.
NoFetch(s) ==
    [s EXCEPT !.last_outcome = "none",
              !.last_key = <<0, 0, 0>>,
              !.last_member_vote = 0,
              !.last_scraped = 0,
              !.enriched = <<>>,
              !.sleeps = <<>>]

\* An exception leaves collect_member_votes (lines 81-85): the frames and
\* their lists are gone, the caller gets no list.
Raise(s, exception) ==
    [s EXCEPT !.pc = "raised",
              !.raised = exception,
              !.discarded = TotalFinished(s),
              !.all_votes = <<>>,
              !.congress_votes = <<>>,
              !.session_votes = <<>>]

\* collect_member_votes line 79: return all_votes.
ReturnAllVotes(s) ==
    [s EXCEPT !.pc = "returned",
              !.result = s.all_votes,
              !.congress_votes = <<>>,
              !.session_votes = <<>>]

\* A loop that takes the congresses from the end of the list.
CongressLoop_Backwards(s) ==
    IF s.ci > Len(s.congress_numbers) THEN ReturnAllVotes(s)
    ELSE IF CapReached(s.max_votes, s.all_votes) THEN ReturnAllVotes(s)
    ELSE [s EXCEPT !.pc = "session_loop",
                   !.congress = s.congress_numbers[Len(s.congress_numbers) + 1 - s.ci],
                   !.c_max_votes = Remaining(s.max_votes, s.all_votes),
                   !.congress_votes = <<>>,
                   !.si = 1]

\* collect_member_votes lines 55-63: the head of "for congress in ...".
CongressLoop(s) ==
    IF s.ci > Len(s.congress_numbers) THEN ReturnAllVotes(s)
    ELSE IF CapReached(s.max_votes, s.all_votes) THEN ReturnAllVotes(s)
    ELSE [s EXCEPT !.pc = "session_loop",
                   !.congress = s.congress_numbers[s.ci],
                   !.c_max_votes = Remaining(s.max_votes, s.all_votes),
                   !.congress_votes = <<>>,
                   !.si = 1]

\* _collect_congress_votes line 120 and collect_member_votes lines 65-72.
ReturnCongressVotes(s) ==
    LET all == s.all_votes \o s.congress_votes
    IN  IF CapReached(s.max_votes, all)
        THEN ReturnAllVotes([s EXCEPT !.all_votes = SubSeq(all, 1, s.max_votes)])
        ELSE [s EXCEPT !.pc = "congress_loop",
                       !.all_votes = all,
                       !.ci = s.ci + 1]

\* A session loop without the check of lines 106-107.
SessionLoop_NoCapCheck(s) ==
    IF s.si > Len(Sessions) THEN ReturnCongressVotes(s)
    ELSE [s EXCEPT !.pc = "vote_loop",
                   !.session = Sessions[s.si],
                   !.s_max_votes = Remaining(s.c_max_votes, s.congress_votes),
                   !.session_votes = <<>>,
                   !.vote_number = 1,
                   !.consecutive_failures = 0,
                   !.failed_run = 0]

\* A session scan that goes on from the vote number and the failure counter
\* the scan before it ended with.
SessionLoop_CarriesScan(s) ==
    IF s.si > Len(Sessions) THEN ReturnCongressVotes(s)
    ELSE IF CapReached(s.c_max_votes, s.congress_votes) THEN ReturnCongressVotes(s)
    ELSE [s EXCEPT !.pc = "vote_loop",
                   !.session = Sessions[s.si],
                   !.s_max_votes = Remaining(s.c_max_votes, s.congress_votes),
                   !.session_votes = <<>>,
                   !.failed_run = 0]

\* _collect_congress_votes lines 105-113: the head of "for session in [1, 2]".
SessionLoop(s) ==
    IF s.si > Len(Sessions) THEN ReturnCongressVotes(s)
    ELSE IF CapReached(s.c_max_votes, s.congress_votes) THEN ReturnCongressVotes(s)
    ELSE [s EXCEPT !.pc = "vote_loop",
                   !.session = Sessions[s.si],
                   !.s_max_votes = Remaining(s.c_max_votes, s.congress_votes),
                   !.session_votes = <<>>,
                   !.vote_number = 1,
                   !.consecutive_failures = 0,
                   !.failed_run = 0]

\* _collect_session_votes line 225 and _collect_congress_votes line 115.
ReturnSessionVotes(s) ==
    [s EXCEPT !.pc = "session_loop",
              !.congress_votes = s.congress_votes \o s.session_votes,
              !.si = s.si + 1,
              !.closed = s.closed \cup {<<s.ci, s.si>>},
              !.n_exhausted = IF s.consecutive_failures >= max_consecutive_failures
                              THEN s.n_exhausted + 1 ELSE s.n_exhausted]

\* _collect_session_votes lines 143-146: the loop goes on to a fetch.
WillFetch(s) ==
    /\ s.pc = "vote_loop"
    /\ s.consecutive_failures < max_consecutive_failures
    /\ ~CapReached(s.s_max_votes, s.session_votes)

\* _collect_session_votes lines 143-146: the loop ends without a fetch.
VoteLoopExit(s) == ReturnSessionVotes(s)

\* The mocked fetcher of the end-to-end scenario answers a match for vote 1
\* and not found for votes 2 to 6. scenario is "mock" while every fetch of the
\* call was answered so, "beyond" once such a call fetched a vote number
\* above 6, and "off" once the fetcher answered otherwise.
ScenarioAfter(scenario, vote_number, outcome) ==
    IF scenario # "mock" THEN scenario
    ELSE IF vote_number > 6 THEN "beyond"
    ELSE IF vote_number = 1 /\ outcome = "matched" THEN "mock"
    ELSE IF vote_number \in 2..6 /\ outcome = "404" THEN "mock"
    ELSE "off"

\* History of a call of api_client.get_house_vote_members (line 150).
Fetched(s, outcome) ==
    [s EXCEPT !.last_key = <<s.congress, s.session, s.vote_number>>,
              !.last_outcome = outcome,
              !.last_member_vote = 0,
              !.last_scraped = 0,
              !.enriched = <<>>,
              !.sleeps = <<>>,
              !.failed_run = IF outcome \in {"404", "api_error"}
                             THEN s.failed_run + 1 ELSE 0,
              !.scenario = ScenarioAfter(s.scenario, s.vote_number, outcome)]

\* An end of the iteration that leaves the failure counter as it is.
AfterSuccess_KeepsCounter(s) ==
    [s EXCEPT !.vote_number = s.vote_number + 1,
              !.sleeps = Append(s.sleeps, PacingDelay)]

\* An end of the iteration that goes on to the next fetch at once.
AfterSuccess_NoPacing(s) ==
    [s EXCEPT !.consecutive_failures = 0,
              !.vote_number = s.vote_number + 1]

\* Lines 198-203: reset the failure counter, advance, sleep.
AfterSuccess(s) ==
    [s EXCEPT !.consecutive_failures = 0,
              !.vote_number = s.vote_number + 1,
              !.sleeps = Append(s.sleeps, PacingDelay)]

\* A success branch that asks the enricher about the first entry of every
\* response before it looks for the member.
OnSuccess_EnrichesFirst(s, api_vote_data, scraped_details) ==
    LET i == FindMemberVote(api_vote_data, s.last_name, s.state)
        first == <<api_vote_data[1].source_data_url>>
    IN  IF i = 0
        THEN AfterSuccess([Fetched(s, "unmatched") EXCEPT !.enriched = first])
        ELSE LET member_vote == api_vote_data[i]
                 vote_record == MakeVoteRecord(member_vote, scraped_details)
                 f == [Fetched(s, "matched") EXCEPT
                          !.last_member_vote = member_vote,
                          !.last_scraped = scraped_details,
                          !.enriched = first]
             IN  IF VoteRecordValid(vote_record)
                 THEN AfterSuccess(
                          [f EXCEPT !.session_votes = Append(s.session_votes, vote_record)])
                 ELSE Raise(f, "ValidationError")

\* Lines 150-203: the fetch returned api_vote_data; the enricher, called at
\* line 157 when a member matched, returns scraped_details.
OnSuccess(s, api_vote_data, scraped_details) ==
    LET i == FindMemberVote(api_vote_data, s.last_name, s.state)
    IN  IF i = 0
        THEN AfterSuccess(Fetched(s, "unmatched"))
        ELSE LET member_vote == api_vote_data[i]
                 vote_record == MakeVoteRecord(member_vote, scraped_details)
                 f == [Fetched(s, "matched") EXCEPT
                          !.last_member_vote = member_vote,
                          !.last_scraped = scraped_details,
                          !.enriched = <<member_vote.source_data_url>>]
             IN  IF VoteRecordValid(vote_record)
                 THEN AfterSuccess(
                          [f EXCEPT !.session_votes = Append(s.session_votes, vote_record)])
                 ELSE Raise(f, "ValidationError")

\* A 404 branch that takes the first 404 for the end of the session.
OnNotFound_EndsScan(s) ==
    ReturnSessionVotes([Fetched(s, "404") EXCEPT
                           !.consecutive_failures = s.consecutive_failures + 1,
                           !.vote_number = s.vote_number + 1])

\* A 404 branch that raises the fault once the session is exhausted.
OnNotFound_Surfaces(s) ==
    LET f == [Fetched(s, "404") EXCEPT
                 !.consecutive_failures = s.consecutive_failures + 1,
                 !.vote_number = s.vote_number + 1]
    IN  IF f.consecutive_failures >= max_consecutive_failures
        THEN Raise(f, "APIError")
        ELSE f

\* A 404 branch that counts the failure and asks for the same vote again.
OnNotFound_AsksAgain(s) ==
    LET f == [Fetched(s, "404") EXCEPT
                 !.consecutive_failures = s.consecutive_failures + 1]
    IN  IF f.consecutive_failures >= max_consecutive_failures
        THEN ReturnSessionVotes(f)
        ELSE f

\* A 404 branch that starts the session over at the 5th failure.
OnNotFound_Restarts(s) ==
    LET f == [Fetched(s, "404") EXCEPT
                 !.consecutive_failures = s.consecutive_failures + 1,
                 !.vote_number = s.vote_number + 1]
    IN  IF f.consecutive_failures >= max_consecutive_failures
        THEN [f EXCEPT !.vote_number = 1, !.consecutive_failures = 0,
                       !.failed_run = 0, !.session_votes = <<>>]
        ELSE f

\* Lines 205-214: APIError with status_code 404.
OnNotFound(s) ==
    LET f == [Fetched(s, "404") EXCEPT
                 !.consecutive_failures = s.consecutive_failures + 1,
                 !.vote_number = s.vote_number + 1]
    IN  IF f.consecutive_failures >= max_consecutive_failures
        THEN ReturnSessionVotes(f)
        ELSE f

\* An else branch that logs the error and does not count it.
OnOtherAPIError_NotCounted(s, status_code) ==
    [Fetched(s, "api_error") EXCEPT !.vote_number = s.vote_number + 1]

\* An else branch that counts the error and asks for the same vote again.
OnOtherAPIError_Retries(s, status_code) ==
    LET f == [Fetched(s, "api_error") EXCEPT
                 !.consecutive_failures = s.consecutive_failures + 1]
    IN  IF f.consecutive_failures >= max_consecutive_failures
        THEN ReturnSessionVotes(f)
        ELSE f

\* Lines 215-223: any other APIError.
OnOtherAPIError(s, status_code) ==
    LET f == [Fetched(s, "api_error") EXCEPT
                 !.consecutive_failures = s.consecutive_failures + 1,
                 !.vote_number = s.vote_number + 1]
    IN  IF f.consecutive_failures >= max_consecutive_failures
        THEN ReturnSessionVotes(f)
        ELSE f

\* Line 205 catches only APIError: an APIError reaches one of the branches.
OnAPIError(s, status_code) ==
    IF status_code = 404 THEN OnNotFound(s) ELSE OnOtherAPIError(s, status_code)

\* An except clause that catches the ValidationError like an APIError.
OnValidationError_Swallowed(s) ==
    LET f == [Fetched(s, "validation") EXCEPT
                 !.consecutive_failures = s.consecutive_failures + 1,
                 !.vote_number = s.vote_number + 1]
    IN  IF f.consecutive_failures >= max_consecutive_failures
        THEN ReturnSessionVotes(f)
        ELSE f

\* A ValidationError of the fetcher is not caught at line 205; lines 81-85
\* log it and raise it again.
OnValidationError(s) ==
    Raise(Fetched(s, "validation"), "ValidationError")

(***************************************************************************)
(* The calls of the model.                                                 *)
(***************************************************************************)
\* Congress lists a caller passes: one congress, two in ascending and two in
\* descending order.
CongressLists == {<<118>>, <<118, 119>>, <<119, 118>>}
Caps == {None} \cup (0..MaxCap)

Calls == {InitState("Doe", "TX", cn, mv) : cn \in CongressLists, mv \in Caps}

\* No function is looked at on its own.
NoCall == [fn |-> "none"]

Init ==
    /\ st \in Calls
    /\ tw = st
    /\ call = NoCall

\* The key exists at the service: a fetch of it can return a response. A
\* fetch of any key can raise an APIError of any status.
Exists(s) == s.vote_number <= MaxVote

CongressLoopStep ==
    /\ st.pc = "congress_loop"
    /\ st' = CongressLoop(NoFetch(st))
    /\ UNCHANGED <<tw, call>>

SessionLoopStep ==
    /\ st.pc = "session_loop"
    /\ st' = SessionLoop(NoFetch(st))
    /\ UNCHANGED <<tw, call>>

VoteLoopExitStep ==
    /\ st.pc = "vote_loop"
    /\ ~WillFetch(st)
    /\ st' = VoteLoopExit(NoFetch(st))
    /\ UNCHANGED <<tw, call>>

FetchSuccess ==
    /\ WillFetch(st)
    /\ Exists(st)
    /\ \E api_vote_data \in Responses(st.congress, st.vote_number),
          scraped_details \in ScrapedSet(st.vote_number) :
          /\ \/ FindMemberVote(api_vote_data, st.last_name, st.state) = 0
             \/ TotalFinished(st) < MaxMatches
          /\ st' = OnSuccess(st, api_vote_data, scraped_details)
    /\ UNCHANGED <<tw, call>>

FetchNotFound ==
    /\ WillFetch(st)
    /\ st' = OnAPIError(st, 404)
    /\ UNCHANGED <<tw, call>>

FetchOtherAPIError ==
    /\ WillFetch(st)
    /\ \E status_code \in ApiErrorStatuses \ {404} :
          st' = OnAPIError(st, status_code)
    /\ UNCHANGED <<tw, call>>

FetchValidationError ==
    /\ WillFetch(st)
    /\ Exists(st)
    /\ st' = OnValidationError(st)
    /\ UNCHANGED <<tw, call>>

Next ==
    \/ CongressLoopStep
    \/ SessionLoopStep
    \/ VoteLoopExitStep
    \/ FetchSuccess
    \/ FetchNotFound
    \/ FetchOtherAPIError
    \/ FetchValidationError

Spec == Init /\ [][Next]_vars

\* A call over one congress that runs on: collect_member_votes is
\* sequential code without a blocking wait, so a step that can be taken is
\* taken.
InitLive ==
    /\ st \in {InitState("Doe", "TX", <<118>>, mv) : mv \in Caps}
    /\ tw = st
    /\ call = NoCall

SpecLive == InitLive /\ [][Next]_vars /\ WF_vars(Next)

(***************************************************************************)
(* One successful fetch with any payload: the merge of a raw record with   *)
(* scraped details (lines 155-188) over a wide set of inputs.              *)
(***************************************************************************)
\* The largest vote number whose payload is drawn from the wide sets.
MergeVotes == 1

D_SHORT == <<"2", "0", "2", "3", "-", "1", "-", "3">>

\* Raw startDate values: a date, a short date, nothing or junk, followed by
\* a time, a newline, junk or nothing; and a value that is not a string.
StartDates ==
    {Str(d \o rest) :
        d \in {D_2023_01_03, D_SHORT, <<>>, <<"x">>},
        rest \in {<<>>, <<"T", "1", "2">>, <<"\n">>, <<"\n", "T", "1">>,
                  <<"x">>, <<"T">>}}
    \cup {NotAStr}

\* Raw sourceDataURL values: the one of the roll call, one with another
\* extension, the empty string and a value that is not a string.
MergeSourceRefs(congress, vote_number) ==
    {GoodMeta(congress, vote_number).source_data_url,
     Str(<<CLERK, EVS>> \o <<"2", "0", "2", "3">> \o <<ROLL>> \o ToDigits(vote_number)
             \o <<".html">>),
     Str(<<>>),
     NotAStr}

\* Vote metadata of any question, start date and source reference, and
\* metadata with a congress, a roll call number or a vote cast that no
\* VoteRecord accepts.
WideMetas(congress, vote_number) ==
    {[GoodMeta(congress, vote_number) EXCEPT
         !.vote_question = q, !.start_date = d, !.source_data_url = u] :
        q \in {"Q_API", ""}, d \in StartDates,
        u \in MergeSourceRefs(congress, vote_number)}
    \cup Metas(congress, vote_number)
    \cup {[GoodMeta(congress, vote_number) EXCEPT !.congress = 0]}

WideScraped ==
    {[question |-> q, bill_title |-> IF q = "" THEN "" ELSE "Title", date |-> d] :
        q \in {"", "Q_SCRAPED"}, d \in {SENTINEL, D_2025_03_03}}

\* What extract_vote_details may return for a source reference: anything
\* when it derives a page URL from it, nothing found when it does not.
MergeScraped(source_data_url) ==
    IF GenerateRcvUrl(source_data_url).raised = "none" THEN WideScraped
    ELSE {NothingScraped}

MergeFetch ==
    /\ WillFetch(st)
    /\ st.vote_number <= MergeVotes
    /\ \E meta \in WideMetas(st.congress, st.vote_number) :
       \E scraped_details \in MergeScraped(meta.source_data_url) :
          st' = OnSuccess(st, <<Entry("Roe", "TX", meta), Entry("doe", "tx", meta)>>,
                          scraped_details)
    /\ UNCHANGED <<tw, call>>

MergeNext ==
    \/ CongressLoopStep
    \/ SessionLoopStep
    \/ MergeFetch

SpecMerge == Init /\ [][MergeNext]_vars

(***************************************************************************)
(* One successful fetch per vote number with any mix of member entries:    *)
(* the matching of lines 153-155 over a wide set of criteria and entries.  *)
(***************************************************************************)
\* The criteria a caller constructs, as written by the caller.
RawLastNames == {"Smith", "smith", " Smith ", "Doe"}
RawStates == {"ca", "CA", "Ca", "tx"}

MatchCalls ==
    {InitState(PostInit(ln, state).last_name, PostInit(ln, state).state,
               <<118>>, None) : ln \in RawLastNames, state \in RawStates}

InitMatch ==
    /\ st \in MatchCalls
    /\ tw = st
    /\ call = NoCall

\* Member entries of a response: any spelling of two names and two states.
MatchEntries(congress, vote_number) ==
    {Entry(ln, state, GoodMeta(congress, vote_number)) :
        ln \in {"Smith", "SMITH", "smith", "Doe", "DOE"},
        state \in {"CA", "ca", "Ca", "TX", "tx"}}

MatchResponses(congress, vote_number) ==
    LET E == MatchEntries(congress, vote_number)
    IN  {<<e>> : e \in E} \cup {<<e1, e2>> : e1 \in E, e2 \in E}

\* A successful fetch; call keeps the list handed to _find_member_vote.
MatchFetch ==
    /\ WillFetch(st)
    /\ st.vote_number <= MergeVotes
    /\ \E api_vote_data \in MatchResponses(st.congress, st.vote_number),
          scraped_details \in ScrapedSet(st.vote_number) :
          /\ st' = OnSuccess(st, api_vote_data, scraped_details)
          /\ call' = [fn |-> "_find_member_vote", api_vote_data |-> api_vote_data]
    /\ UNCHANGED tw

MatchNext ==
    \/ CongressLoopStep
    \/ SessionLoopStep
    \/ MatchFetch

SpecMatch == InitMatch /\ [][MatchNext]_vars

(***************************************************************************)
(* The helpers of the enricher and the URL derivation of the orchestrator, *)
(* each called once on an argument drawn from a wide set.                  *)
(***************************************************************************)
\* Source references: a host, /evs/, a year, /roll, a roll number and an
\* extension, with or without a character before and after; the empty string
\* and a value that is not a string.
Hosts == {CLERK, "https://host", "http://clerk.house.gov"}
Years == {<<"2", "0", "2", "5">>, <<"2", "5">>, <<"2", "0", "2", "5", "5">>}
Rolls == {<<"5">>, <<"5", "5">>, <<"0", "5", "5">>, <<"1", "2", "3", "4">>, <<>>}

SourceRefs ==
    {Str(pre \o <<h, EVS>> \o year \o <<ROLL>> \o roll \o <<ext>> \o post) :
        pre \in {<<>>, <<"x">>}, h \in Hosts, year \in Years, roll \in Rolls,
        ext \in {XML, ".html"}, post \in {<<>>, <<"x">>}}
    \cup {Str(<<>>), NotAStr}

\* Dates of the calendar, and the ways a page may write one.
CalendarDates ==
    {ymd \in {2024, 2025} \X {1, 2, 3, 12} \X {1, 9, 15, 29, 31} :
        ymd[3] <= DaysInMonth(ymd[1], ymd[2])}

MonthAbbr(m, upper) ==
    CASE m = 1  -> IF upper THEN <<"J", "A", "N">> ELSE <<"J", "a", "n">>
      [] m = 2  -> IF upper THEN <<"F", "E", "B">> ELSE <<"F", "e", "b">>
      [] m = 3  -> IF upper THEN <<"M", "A", "R">> ELSE <<"M", "a", "r">>
      [] m = 12 -> IF upper THEN <<"D", "E", "C">> ELSE <<"D", "e", "c">>

Formats == {"D-Mon-YYYY", "DD-MON-YYYY", "M/D/YYYY", "MM/DD/YYYY",
            "YYYY-M-D", "YYYY-MM-DD"}

Render(format, y, m, d) ==
    LET yyyy == Zfill(ToDigits(y), 4)
        mm   == Zfill(ToDigits(m), 2)
        dd   == Zfill(ToDigits(d), 2)
    IN  CASE format = "D-Mon-YYYY"  ->
                 ToDigits(d) \o <<"-">> \o MonthAbbr(m, FALSE) \o <<"-">> \o yyyy
          [] format = "DD-MON-YYYY" ->
                 dd \o <<"-">> \o MonthAbbr(m, TRUE) \o <<"-">> \o yyyy
          [] format = "M/D/YYYY"    ->
                 ToDigits(m) \o <<"/">> \o ToDigits(d) \o <<"/">> \o yyyy
          [] format = "MM/DD/YYYY"  -> mm \o <<"/">> \o dd \o <<"/">> \o yyyy
          [] format = "YYYY-M-D"    ->
                 yyyy \o <<"-">> \o ToDigits(m) \o <<"-">> \o ToDigits(d)
          [] format = "YYYY-MM-DD"  -> yyyy \o <<"-">> \o mm \o <<"-">> \o dd

\* The calendar date y-m-d written YYYY-MM-DD.
Canonical(y, m, d) == Render("YYYY-MM-DD", y, m, d)

\* A candidate of a page for one of the three patterns: its text and the
\* date it denotes, <<>> when it denotes no date of the calendar.
Candidate(text, date) == [text |-> text, date |-> date]
NoCandidate == Candidate(<<>>, <<>>)

Candidates0 ==
    {NoCandidate,
     Candidate(<<"3", "1", "-", "F", "e", "b", "-", "2", "0", "2", "5">>, <<>>),
     Candidate(<<"5", "-", "X", "y", "z", "-", "2", "0", "2", "5">>, <<>>),
     Candidate(<<"3", "2", "-", "M", "a", "r", "-", "2", "0", "2", "5">>, <<>>),
     Candidate(<<"3", "-", "M", "a", "r", "-", "2", "0", "2", "5">>, Canonical(2025, 3, 3))}

Candidates1 ==
    {NoCandidate,
     Candidate(<<"1", "3", "/", "4", "5", "/", "2", "0", "2", "5">>, <<>>),
     Candidate(<<"2", "/", "3", "0", "/", "2", "0", "2", "5">>, <<>>),
     Candidate(<<"3", "/", "1", "5", "/", "2", "0", "2", "5">>, Canonical(2025, 3, 15))}

Candidates2 ==
    {NoCandidate,
     Candidate(<<"2", "0", "2", "5", "-", "1", "3", "-", "1">>, <<>>),
     Candidate(<<"2", "0", "2", "5", "-", "2", "-", "3", "0">>, <<>>),
     Candidate(<<"0", "0", "0", "0", "-", "1", "-", "1">>, <<>>),
     Candidate(<<"2", "0", "2", "5", "-", "1", "-", "2">>, Canonical(2025, 1, 2))}

\* Texts without a date the patterns accept.
JunkTexts ==
    {<<>>, <<"n", "o", " ", "d", "a", "t", "e">>, <<"1", "5", "-", "0", "3", "-", "2", "0", "2", "5">>, <<"M", "a", "r", "-", "2", "0", "2", "5">>,
     <<"1", "3", "/", "4", "5", "/", "2", "0", "2", "5">> \o <<" ">> \o <<"3", "/", "1", "5", "/", "2", "0", "2", "5">>}

\* The arguments of a call and what it has returned; expect is the date the
\* text of an _extract_date call was written to denote.
NoResult ==
    [raised |-> "none", url |-> NotAStr, date |-> <<>>,
     details |-> [question |-> "", bill_title |-> "", date |-> <<>>]]

HelperCall(fn, source_data_url, html_content, fetch, kind, expect) ==
    [fn |-> fn, pc |-> "call", source_data_url |-> source_data_url,
     html_content |-> html_content, fetch |-> fetch, kind |-> kind,
     expect |-> expect, result |-> NoResult]

UrlCalls ==
    {HelperCall(fn, u, <<>>, TransportFault("none"), "url", <<>>) :
        fn \in {"_generate_rcv_url", "_generate_roll_call_url"}, u \in SourceRefs}

RenderedDateCalls ==
    {HelperCall("_extract_date", NotAStr,
                pre \o Render(f, ymd[1], ymd[2], ymd[3]) \o post,
                TransportFault("none"), "rendered",
                Canonical(ymd[1], ymd[2], ymd[3])) :
        f \in Formats, ymd \in CalendarDates,
        pre \in {<<>>, <<"o", "n", " ">>}, post \in {<<>>, <<".">>}}

\* The candidates of a page in the order a, b, c, separated by spaces; the
\* date expected is that of the first pattern whose candidate denotes one.
CompositeCall(c0, c1, c2, order) ==
    LET c == <<c0, c1, c2>>
        text == c[order[1]].text \o <<" ">> \o c[order[2]].text
                    \o <<" ">> \o c[order[3]].text
        expect == IF c0.date # <<>> THEN c0.date
                  ELSE IF c1.date # <<>> THEN c1.date
                  ELSE c2.date
    IN  HelperCall("_extract_date", NotAStr, text, TransportFault("none"),
                   "composite", expect)

CompositeDateCalls ==
    {CompositeCall(c0, c1, c2, order) :
        c0 \in Candidates0, c1 \in Candidates1, c2 \in Candidates2,
        order \in {<<1, 2, 3>>, <<3, 2, 1>>, <<2, 3, 1>>}}

JunkDateCalls ==
    {HelperCall("_extract_date", NotAStr, t, TransportFault("none"), "junk", <<>>) :
        t \in JunkTexts}

\* Outcomes of the page fetch of extract_vote_details.
PageFetches ==
    {TransportFault("Timeout"), TransportFault("ConnectionError")}
    \cup {Response(status_code, q, IF q = "" THEN "" ELSE "Title", text) :
            status_code \in {200, 404, 500}, q \in {"", "Q_SCRAPED"},
            text \in {<<>>, <<"3", "-", "M", "a", "r", "-", "2", "0", "2", "5">>, <<"3", "1", "-", "F", "e", "b", "-", "2", "0", "2", "5">>, <<"2", "0", "2", "5", "-", "1", "-", "2">>, <<"n", "o", " ", "d", "a", "t", "e">>}}

DetailsCalls ==
    {HelperCall("extract_vote_details", u, <<>>, fetch, "details", <<>>) :
        u \in {Str(<<CLERK, EVS>> \o <<"2", "0", "2", "5">> \o <<ROLL>> \o <<"0", "5", "5">> \o <<XML>>),
               Str(<<"https://host", EVS>> \o <<"2", "0", "2", "5">> \o <<ROLL>> \o <<"0", "5", "5">> \o <<XML>>),
               Str(<<>>), NotAStr},
        fetch \in PageFetches}

InitHelpers ==
    /\ st = InitState("Doe", "TX", <<118>>, None)
    /\ tw = st
    /\ call \in UrlCalls \cup RenderedDateCalls \cup CompositeDateCalls
                \cup JunkDateCalls \cup DetailsCalls

GenerateRcvUrlCall ==
    /\ call.fn = "_generate_rcv_url"
    /\ call.pc = "call"
    /\ call' = [call EXCEPT
                   !.pc = "done",
                   !.result.raised = GenerateRcvUrl(call.source_data_url).raised,
                   !.result.url = GenerateRcvUrl(call.source_data_url).url]
    /\ UNCHANGED <<st, tw>>

GenerateRollCallUrlCall ==
    /\ call.fn = "_generate_roll_call_url"
    /\ call.pc = "call"
    /\ call' = [call EXCEPT
                   !.pc = "done",
                   !.result.url = GenerateRollCallUrl(call.source_data_url)]
    /\ UNCHANGED <<st, tw>>

ExtractDateCall ==
    /\ call.fn = "_extract_date"
    /\ call.pc = "call"
    /\ call' = [call EXCEPT
                   !.pc = "done",
                   !.result.date = ExtractDate(call.html_content)]
    /\ UNCHANGED <<st, tw>>

ExtractVoteDetailsCall ==
    /\ call.fn = "extract_vote_details"
    /\ call.pc = "call"
    /\ call' = [call EXCEPT
                   !.pc = "done",
                   !.result.raised =
                       ExtractVoteDetails(call.source_data_url, call.fetch).raised,
                   !.result.details =
                       ExtractVoteDetails(call.source_data_url, call.fetch).details]
    /\ UNCHANGED <<st, tw>>

HelpersNext ==
    \/ GenerateRcvUrlCall
    \/ GenerateRollCallUrlCall
    \/ ExtractDateCall
    \/ ExtractVoteDetailsCall

SpecHelpers == InitHelpers /\ [][HelpersNext]_vars

(***************************************************************************)
(* MemberSearchCriteria (models.py 112-136): the constructor's              *)
(* __post_init__, called once on arguments drawn from a wide set. Names and *)
(* states are strings of characters here.                                  *)
(***************************************************************************)
\* The characters str.strip() removes.
Whitespace == {" ", "\t", "\n"}

RECURSIVE LStrip(_)
LStrip(s) ==
    IF s # <<>> /\ Head(s) \in Whitespace THEN LStrip(Tail(s)) ELSE s

RECURSIVE RStrip(_)
RStrip(s) ==
    IF s # <<>> /\ s[Len(s)] \in Whitespace
    THEN RStrip(SubSeq(s, 1, Len(s) - 1))
    ELSE s

\* str.strip()
StripStr(s) == RStrip(LStrip(s))

\* str.upper() of one character: a letter's capital; "ß" becomes "SS".
UpperChar(c) ==
    IF c = "ß" THEN <<"S", "S">>
    ELSE IF \E k \in 1..26 : LowerLetters[k] = c
    THEN <<UpperLetters[CHOOSE k \in 1..26 : LowerLetters[k] = c]>>
    ELSE <<c>>

\* str.upper()
RECURSIVE UpperStr(_)
UpperStr(s) ==
    IF s = <<>> THEN <<>> ELSE UpperChar(Head(s)) \o UpperStr(Tail(s))

\* A congress_numbers argument: a list or not, and its elements, each an int
\* or not.
IntItem(n) == [is_int |-> TRUE, value |-> n]
NotAnInt == [is_int |-> FALSE, value |-> 0]
ListOf(items) == [is_list |-> TRUE, items |-> items]
NotAList(items) == [is_list |-> FALSE, items |-> items]

CriteriaRaised ==
    [raised |-> "ValidationError", last_name |-> NotAStr, state |-> NotAStr,
     congress_numbers |-> NotAList(<<>>)]

\* MemberSearchCriteria.__post_init__: the object constructed, or the
\* ValidationError raised.
MemberSearchCriteriaPostInit(last_name, state, congress_numbers) ==
    IF ~last_name.is_str \/ last_name.chars = <<>>
    THEN CriteriaRaised
    ELSE IF ~state.is_str \/ state.chars = <<>> \/ Len(state.chars) # 2
    THEN CriteriaRaised
    ELSE IF ~congress_numbers.is_list \/ congress_numbers.items = <<>>
    THEN CriteriaRaised
    ELSE IF \E i \in 1..Len(congress_numbers.items) :
                \/ ~congress_numbers.items[i].is_int
                \/ congress_numbers.items[i].value < 1
    THEN CriteriaRaised
    ELSE [raised           |-> "none",
          last_name        |-> Str(StripStr(last_name.chars)),
          state            |-> Str(UpperStr(StripStr(state.chars))),
          congress_numbers |-> congress_numbers]

\* Arguments a caller may pass.
CriteriaLastNames ==
    {Str(<<"D", "o", "e">>), Str(<<" ", "D", "o", "e", " ">>), Str(<<" ", " ">>),
     Str(<<>>), NotAStr}

CriteriaStates ==
    {Str(<<"T", "X">>), Str(<<"t", "x">>), Str(<<"T", "x">>), Str(<<" ", "T">>),
     Str(<<"T", " ">>), Str(<<" ", " ">>), Str(<<"T", "E", "X">>),
     Str(<<" ", "T", "X", " ">>), Str(<<"T">>), Str(<<>>), Str(<<"ß", "x">>),
     Str(<<"t", "1">>), NotAStr}

CriteriaCongressNumbers ==
    {ListOf(<<IntItem(118)>>), ListOf(<<IntItem(118), IntItem(119)>>),
     ListOf(<<IntItem(1)>>), ListOf(<<>>), ListOf(<<IntItem(0)>>),
     ListOf(<<IntItem(118), IntItem(-1)>>), ListOf(<<IntItem(118), NotAnInt>>),
     NotAList(<<IntItem(118)>>), NotAList(<<>>)}

CriteriaCalls ==
    {[fn |-> "MemberSearchCriteria", pc |-> "call", last_name |-> ln,
      state |-> state, congress_numbers |-> cn, result |-> CriteriaRaised] :
        ln \in CriteriaLastNames, state \in CriteriaStates,
        cn \in CriteriaCongressNumbers}

InitCriteria ==
    /\ st = InitState("Doe", "TX", <<118>>, None)
    /\ tw = st
    /\ call \in CriteriaCalls

MemberSearchCriteriaCall ==
    /\ call.fn = "MemberSearchCriteria"
    /\ call.pc = "call"
    /\ call' = [call EXCEPT
                   !.pc = "done",
                   !.result = MemberSearchCriteriaPostInit(
                                  call.last_name, call.state, call.congress_numbers)]
    /\ UNCHANGED <<st, tw>>

SpecCriteria == InitCriteria /\ [][MemberSearchCriteriaCall]_vars

(***************************************************************************)
(* CongressAPIClient._parse_vote_response (congress_api.py 137-225) and     *)
(* APIVoteData.legislation (models.py 80-85).                               *)
(* A JSON value whose type the parser looks at is a record [kind, val]: a   *)
(* dict is a function from its keys, a list a sequence. Values the parser   *)
(* only copies are plain.                                                  *)
(***************************************************************************)
JDict(f) == [kind |-> "dict", val |-> f]
JList(items) == [kind |-> "list", val |-> items]
JStr(chars) == [kind |-> "str", val |-> chars]
JNull == [kind |-> "null", val |-> <<>>]

K1 == "houseRollCallMemberVotes"
K2 == "houseRollCallVoteMemberVotes"

core_required_fields ==
    <<"congress", "rollCallNumber", "sessionNumber", "sourceDataURL",
      "startDate", "updateDate", "voteQuestion", "voteType", "result",
      "identifier">>

member_required_fields ==
    <<"bioguideID", "firstName", "lastName", "voteCast", "voteParty", "voteState">>

\* "field in v": a key of a dict; an element of a list or a part of a string,
\* which no field name is in the values of the model; TypeError on a value
\* that is no container (None, a number).
InRaises(v) == v.kind \notin {"dict", "list", "str"}
In(field, v) == v.kind = "dict" /\ field \in DOMAIN v.val

\* The place in fields of the first field that is not in v, 0 if all are.
FirstMissing(fields, v) ==
    LET missing == {i \in 1..Len(fields) : ~In(fields[i], v)}
    IN  IF missing = {} THEN 0
        ELSE CHOOSE i \in missing : \A j \in missing : i <= j

\* Lines 154-159 with the first key alone.
SelectVotes_FirstKeyOnly(d) ==
    IF K1 \in DOMAIN d THEN [found |-> TRUE, votes |-> d[K1]]
    ELSE [found |-> FALSE, votes |-> JNull]

\* Lines 154-159: the value under the first of the two keys that is there.
SelectVotes(d) ==
    IF K1 \in DOMAIN d THEN [found |-> TRUE, votes |-> d[K1]]
    ELSE IF K2 \in DOMAIN d THEN [found |-> TRUE, votes |-> d[K2]]
    ELSE [found |-> FALSE, votes |-> JNull]

\* A get with the default None, written "None".
Get_DefaultNone(vote_info, name) ==
    IF name \in DOMAIN vote_info.val THEN vote_info.val[name] ELSE "None"

\* Lines 182-184: vote_info.get(name, '')
Get(vote_info, name) ==
    IF name \in DOMAIN vote_info.val THEN vote_info.val[name] ELSE ""

\* Lines 201-221: the APIVoteData of one member entry.
APIVoteData(vote_info, member_vote) ==
    [congress           |-> vote_info.val["congress"],
     identifier         |-> vote_info.val["identifier"],
     legislation_number |-> Get(vote_info, "legislationNumber"),
     legislation_type   |-> Get(vote_info, "legislationType"),
     legislation_url    |-> Get(vote_info, "legislationUrl"),
     bio_guide_id       |-> member_vote.val["bioguideID"],
     first_name         |-> member_vote.val["firstName"],
     last_name          |-> member_vote.val["lastName"],
     vote_cast          |-> member_vote.val["voteCast"],
     vote_party         |-> member_vote.val["voteParty"],
     vote_state         |-> member_vote.val["voteState"],
     result             |-> vote_info.val["result"],
     roll_call_number   |-> vote_info.val["rollCallNumber"],
     session_number     |-> vote_info.val["sessionNumber"],
     source_data_url    |-> vote_info.val["sourceDataURL"],
     start_date         |-> vote_info.val["startDate"],
     update_date        |-> vote_info.val["updateDate"],
     vote_question      |-> vote_info.val["voteQuestion"],
     vote_type          |-> vote_info.val["voteType"]]

\* APIVoteData.legislation: type and number side by side, or the sentinel.
Legislation(vote_data) ==
    IF vote_data.legislation_type # "" /\ vote_data.legislation_number # ""
    THEN <<vote_data.legislation_type, vote_data.legislation_number>>
    ELSE <<"Non-Legislative">>

\* The call raises: message is the text and, where it names one, the field.
ParseRaised(exception, message) ==
    [raised |-> exception, message |-> message, vote_data_list |-> <<>>]

\* Lines 190-225: the loop over the member entries, which stops at the first
\* entry that raises.
ParseResults(vote_info, results) ==
    LET bad == {i \in 1..Len(results) :
                   \/ InRaises(results[i])
                   \/ FirstMissing(member_required_fields, results[i]) # 0}
    IN  IF bad = {}
        THEN [raised         |-> "none",
              message        |-> <<>>,
              vote_data_list |-> [i \in 1..Len(results) |->
                                     APIVoteData(vote_info, results[i])]]
        ELSE LET member_vote == results[CHOOSE i \in bad : \A j \in bad : i <= j]
             IN  IF InRaises(member_vote)
                 THEN ParseRaised("TypeError", <<"argument is not iterable">>)
                 ELSE ParseRaised("ValidationError",
                          <<"Member vote data missing required field: ",
                            member_required_fields[
                                FirstMissing(member_required_fields, member_vote)]>>)

\* Lines 168-188: the first vote record, its metadata and its results.
ParseVoteInfo(vote_info) ==
    IF InRaises(vote_info)
    THEN ParseRaised("TypeError", <<"argument is not iterable">>)
    ELSE IF FirstMissing(core_required_fields, vote_info) # 0
    THEN ParseRaised("ValidationError",
             <<"Vote metadata missing required field: ",
               core_required_fields[FirstMissing(core_required_fields, vote_info)]>>)
    ELSE IF ~In("results", vote_info) \/ vote_info.val["results"].kind # "list"
    THEN ParseRaised("ValidationError", <<"Vote data missing member results">>)
    ELSE ParseResults(vote_info, vote_info.val["results"].val)

\* _parse_vote_response: the list it returns or the exception it raises.
ParseVoteResponse(response_data) ==
    IF response_data.kind # "dict"
    THEN ParseRaised("ValidationError", <<"API response must be a dictionary">>)
    ELSE IF ~SelectVotes(response_data.val).found
    THEN ParseRaised("ValidationError",
                     <<"API response missing expected vote data field">>)
    ELSE LET votes == SelectVotes(response_data.val).votes
             roll_call_votes == IF votes.kind = "list" THEN votes.val ELSE <<votes>>
         IN  IF roll_call_votes = <<>>
             THEN ParseRaised("ValidationError",
                              <<"houseRollCallMemberVotes must be a non-empty list">>)
             ELSE ParseVoteInfo(roll_call_votes[1])

(***************************************************************************)
(* _parse_vote_response called once on a payload drawn from a wide set.     *)
(***************************************************************************)
\* A member entry with all six fields, and the entries a payload may hold:
\* complete ones, ones without one field, and values that are no dict.
Member(name) ==
    JDict([f \in {"bioguideID", "firstName", "lastName", "voteCast", "voteParty",
                  "voteState"} |->
              CASE f = "bioguideID" -> <<"id", name>>
                [] f = "firstName"  -> "J"
                [] f = "lastName"   -> name
                [] f = "voteCast"   -> "Yea"
                [] f = "voteParty"  -> "D"
                [] f = "voteState"  -> "TX"])

Without(d, fields) == JDict([f \in DOMAIN d.val \ fields |-> d.val[f]])

MemberLists ==
    {<<>>, <<Member("Doe")>>, <<Member("Doe"), Member("Roe")>>,
     <<Member("Doe"), JNull>>, <<JNull, Without(Member("Doe"), {"lastName"})>>,
     <<Member("Doe"), JStr(<<"x">>)>>,
     <<Without(Member("Doe"), {"voteCast", "voteState"}), Member("Roe")>>}
    \cup {<<Member("Doe"), Without(Member("Roe"), {f})>> :
             f \in {member_required_fields[i] : i \in 1..6}}
    \cup {<<Without(Member("Doe"), {f})>> :
             f \in {member_required_fields[i] : i \in 1..6}}

\* A vote record with all metadata and the three legislation fields; tag
\* tells the metadata of one record from that of another.
VoteInfo(tag, results) ==
    JDict([f \in {core_required_fields[i] : i \in 1..10}
                 \cup {"legislationNumber", "legislationType", "legislationUrl",
                       "results"} |->
              CASE f = "congress"          -> 118
                [] f = "rollCallNumber"    -> 7
                [] f = "sessionNumber"     -> 1
                [] f = "identifier"        -> 11817
                [] f = "results"           -> results
                [] f = "legislationNumber" -> "758"
                [] f = "legislationType"   -> "HR"
                [] OTHER                   -> <<f, tag>>])

LegislationFields == {"legislationNumber", "legislationType", "legislationUrl"}

VoteInfos ==
    {VoteInfo("a", JList(r)) : r \in MemberLists}
    \cup {Without(VoteInfo("a", JList(<<Member("Doe")>>)), {f}) :
             f \in {core_required_fields[i] : i \in 1..10} \cup {"results"}}
    \cup {Without(VoteInfo("a", JList(<<Member("Doe")>>)), {"startDate", "result"}),
          Without(VoteInfo("a", JList(<<Without(Member("Doe"), {"firstName"})>>)),
                  {"voteType"}),
          VoteInfo("a", JNull), VoteInfo("a", Member("Doe")),
          JNull, JStr(<<"x">>), JDict(<<>>)}
    \cup {Without(VoteInfo("a", JList(<<Member("Doe"), Member("Roe")>>)), gone) :
             gone \in SUBSET LegislationFields}

\* The values a payload may hold under a key: a list of one or two vote
\* records, a single vote record, or an empty list.
VoteValues ==
    {JList(<<info>>) : info \in VoteInfos}
    \cup VoteInfos
    \cup {JList(<<info, VoteInfo("b", JList(<<Member("Poe")>>))>>) :
             info \in VoteInfos}
    \cup {JList(<<>>)}

Payloads ==
    {JDict([k \in {K1} |-> v]) : v \in VoteValues}
    \cup {JDict([k \in {K2} |-> v]) : v \in VoteValues}
    \cup {JDict([k \in {K1, K2} |->
                    IF k = K1 THEN v
                    ELSE JList(<<VoteInfo("b", JList(<<Member("Poe")>>))>>)]) :
             v \in {JList(<<>>), JList(<<VoteInfo("a", JList(<<Member("Doe")>>))>>)}}
    \cup {JDict(<<>>), JDict([k \in {"error"} |-> "x"]),
          JList(<<>>), JNull, JStr(<<"x">>),
          JList(<<JDict([k \in {K1} |-> JList(<<>>)])>>)}

ParseCalls ==
    {[fn |-> "_parse_vote_response", pc |-> "call", response_data |-> response_data,
      result |-> ParseRaised("none", <<>>)] : response_data \in Payloads}

InitParse ==
    /\ st = InitState("Doe", "TX", <<118>>, None)
    /\ tw = st
    /\ call \in ParseCalls

ParseVoteResponseCall ==
    /\ call.fn = "_parse_vote_response"
    /\ call.pc = "call"
    /\ call' = [call EXCEPT !.pc = "done",
                            !.result = ParseVoteResponse(call.response_data)]
    /\ UNCHANGED <<st, tw>>

SpecParse == InitParse /\ [][ParseVoteResponseCall]_vars

(***************************************************************************)
(* ApplicationContainer (container.py 25-139): the credential, the lazily   *)
(* built API client and the requests made with it.                          *)
(* A credential is [set, text]: set is FALSE for None (no argument, no      *)
(* environment variable).                                                   *)
(***************************************************************************)
NoKey == [set |-> FALSE, text |-> ""]
Key(text) == [set |-> TRUE, text |-> text]
PLACEHOLDER == "your_actual_api_key_here"

\* Truth value of an Optional[str].
KeyGiven(api_key) == api_key.set /\ api_key.text # ""

\* _get_api_key (lines 95-119): the key that was passed if it is truthy,
\* otherwise the environment's, which is checked.
GetApiKey(c) ==
    IF KeyGiven(c._api_key)
    THEN [raised |-> "none", api_key |-> c._api_key]
    ELSE IF ~KeyGiven(c.env) \/ c.env.text = PLACEHOLDER
    THEN [raised |-> "ConfigurationError", api_key |-> NoKey]
    ELSE [raised |-> "none", api_key |-> c.env]

Credentials == {NoKey, Key(""), Key(PLACEHOLDER), Key("k1"), Key("k2")}

\* __init__ (lines 25-47): nothing is built yet. env is CONGRESS_API_KEY and
\* writable is whether the output directory can be written.
ContainerCalls ==
    {[fn |-> "container", _api_key |-> api_key, env |-> env, writable |-> writable,
      _api_client |-> [built |-> FALSE, api_key |-> NoKey],
      op |-> "__init__", raised |-> "none", requests |-> <<>>] :
        api_key \in Credentials, env \in Credentials, writable \in BOOLEAN}

InitContainer ==
    /\ st = InitState("Doe", "TX", <<118>>, None)
    /\ tw = st
    /\ call \in ContainerCalls

\* The api_client property (lines 63-69); CongressAPIClient.__init__ stores
\* the key as it is (congress_api.py 27).
ApiClient ==
    /\ call.fn = "container"
    /\ call' =
         IF call._api_client.built
         THEN [call EXCEPT !.op = "api_client", !.raised = "none"]
         ELSE IF GetApiKey(call).raised # "none"
         THEN [call EXCEPT !.op = "api_client", !.raised = GetApiKey(call).raised]
         ELSE [call EXCEPT !.op = "api_client", !.raised = "none",
                           !._api_client = [built   |-> TRUE,
                                            api_key |-> GetApiKey(call).api_key]]
    /\ UNCHANGED <<st, tw>>

\* validate_configuration (lines 121-139).
ValidateConfiguration ==
    /\ call.fn = "container"
    /\ call' = [call EXCEPT !.op = "validate_configuration",
                            !.raised = IF GetApiKey(call).raised # "none"
                                       THEN GetApiKey(call).raised
                                       ELSE IF ~call.writable
                                       THEN "ConfigurationError"
                                       ELSE "none"]
    /\ UNCHANGED <<st, tw>>

\* get_house_vote_members on the client of the container: the request
\* carries the client's key (congress_api.py 57).
ClientRequest ==
    /\ call.fn = "container"
    /\ call._api_client.built
    /\ Len(call.requests) < MaxRequests
    /\ call' = [call EXCEPT !.op = "get_house_vote_members", !.raised = "none",
                            !.requests = Append(call.requests,
                                                call._api_client.api_key)]
    /\ UNCHANGED <<st, tw>>

ContainerNext == ApiClient \/ ValidateConfiguration \/ ClientRequest

SpecContainer == InitContainer /\ [][ContainerNext]_vars

(***************************************************************************)
(* The fetcher (congress_api.py 38-135): get_house_vote_members around     *)
(* _make_request_with_retry, as operators on the state of one call.        *)
(* Durations are counted in ticks, Ticks of them to the second.            *)
(***************************************************************************)
\* for attempt in range(max_retries), max_retries: int = 3
max_retries == 3

\* response.headers.get('Retry-After', 60)
DefaultRetryAfter == 60

\* 2 ** n
RECURSIVE Pow2(_)
Pow2(n) == IF n = 0 THEN 1 ELSE 2 * Pow2(n - 1)

\* The Retry-After header of a response: absent, a number of seconds, or a
\* value int() does not accept (an HTTP-date).
NoHeader == [kind |-> "absent", value |-> 0]
IntHeader(n) == [kind |-> "int", value |-> n]
MalformedHeader == [kind |-> "malformed", value |-> 0]

\* What one session.get produced: a transport fault or a response.
Outcome(kind, status_code, header, body) ==
    [kind |-> kind, status_code |-> status_code, header |-> header, body |-> body]

\* History: one more session.get (line 92) and what it produced.
Requested(c, outcome) ==
    [c EXCEPT !.requests = c.requests + 1, !.seen = Append(c.seen, outcome)]

\* The call ends with an exception.
RaiseFrom(c, exception, status_code, response_data) ==
    [c EXCEPT !.pc = "raised", !.raised = exception,
              !.status_code = status_code, !.response_data = response_data]

\* time.sleep(duration), then the next iteration of the for loop.
Sleep(c, duration) ==
    [c EXCEPT !.sleeps = Append(c.sleeps, duration), !.attempt = c.attempt + 1]

\* A handler that waits the same base delay before every retry.
OnTransportFault_NoBackoff(c, kind, jitter) ==
    LET r == Requested(c, Outcome(kind, 0, NoHeader, "empty"))
    IN  IF c.attempt < max_retries - 1
        THEN Sleep(r, Ticks + jitter)
        ELSE RaiseFrom(r, "APIError", NoStatus, "none")

\* Lines 119-133: requests.exceptions.Timeout or ConnectionError; jitter is
\* random.uniform(0, 1) in ticks.
OnTransportFault(c, kind, jitter) ==
    LET r == Requested(c, Outcome(kind, 0, NoHeader, "empty"))
    IN  IF c.attempt < max_retries - 1
        THEN Sleep(r, Ticks * Pow2(c.attempt) + jitter)
        ELSE RaiseFrom(r, "APIError", NoStatus, "none")

\* Any other RequestException of session.get leaves the loop and is wrapped
\* at lines 71-72.
OnRequestException(c) ==
    RaiseFrom(Requested(c, Outcome("RequestException", 0, NoHeader, "empty")),
              "APIError", NoStatus, "none")

\* Lines 95-102: status 429. int() raises ValueError on a header that is no
\* integer, before the attempt is looked at; nothing catches it.
On429(c, header) ==
    LET r == Requested(c, Outcome("response", 429, header, "empty"))
        retry_after == IF header.kind = "absent" THEN DefaultRetryAfter
                       ELSE header.value
    IN  IF header.kind = "malformed"
        THEN RaiseFrom(r, "ValueError", NoStatus, "none")
        ELSE IF c.attempt < max_retries - 1
        THEN Sleep(r, Ticks * retry_after)
        ELSE RaiseFrom(r, "APIError", 429, "none")

\* response.json() if response.content else None. On a body that is not
\* JSON, response.json() raises: a requests.exceptions.JSONDecodeError,
\* which lines 71-72 wrap into an APIError without status, or with an older
\* requests a plain ValueError, which nothing catches.
JsonFaults == {"APIError", "ValueError"}

\* Lines 105-114: status 404 and every other status >= 400. Line 112 tests
\* "'error' in error_data" on a payload that is true, which raises TypeError
\* on a number; the 404 branch does not look into the payload.
OnErrorStatus(c, status_code, body, json_fault) ==
    LET r == Requested(c, Outcome("response", status_code, NoHeader, body))
    IN  CASE body = "empty"    -> RaiseFrom(r, "APIError", status_code, "none")
          [] body = "not_json" -> RaiseFrom(r, json_fault, NoStatus, "none")
          [] body = "json_number" /\ status_code # 404 ->
                 RaiseFrom(r, "TypeError", NoStatus, "none")
          [] OTHER             -> RaiseFrom(r, "APIError", status_code, body)

\* response.json() of a body that is JSON.
JsonOf(body) ==
    CASE body = "json_votes" ->
             JDict([k \in {K1} |-> JList(<<VoteInfo("a", JList(<<Member("Doe")>>))>>)])
      [] body = "json_error" -> JDict([k \in {"error"} |-> "x"])
      [] body = "json_null_votes" -> JDict([k \in {K1} |-> JNull])
      [] body = "json_number" -> [kind |-> "number", val |-> 5]

\* Lines 116-117 and 65-69: the response is returned to
\* get_house_vote_members, which parses its body; an exception of the
\* parser leaves the call as it is (lines 71-72 catch RequestException only).
OnResponse(c, status_code, body, json_fault) ==
    LET r == [Requested(c, Outcome("response", status_code, NoHeader, body))
                 EXCEPT !.got_response = TRUE]
    IN  IF body \in {"empty", "not_json"}
        THEN RaiseFrom(r, json_fault, NoStatus, "none")
        ELSE IF ParseVoteResponse(JsonOf(body)).raised = "none"
        THEN [r EXCEPT !.pc = "returned"]
        ELSE RaiseFrom(r, ParseVoteResponse(JsonOf(body)).raised, NoStatus, "none")

(***************************************************************************)
(* One call of get_house_vote_members against a service that may answer    *)
(* every request with any fault, status, Retry-After header and body.      *)
(***************************************************************************)
FetchCall ==
    [fn |-> "get_house_vote_members", pc |-> "attempt", attempt |-> 0,
     requests |-> 0, sleeps |-> <<>>, seen |-> <<>>, got_response |-> FALSE,
     raised |-> "none", status_code |-> NoStatus, response_data |-> "none"]

InitRetry ==
    /\ st = InitState("Doe", "TX", <<118>>, None)
    /\ tw = st
    /\ call = FetchCall

RetryAfterHeaders ==
    {NoHeader, MalformedHeader} \cup {IntHeader(n) : n \in 0..MaxRetryAfter}

\* Bodies of a response: none, a JSON object with an error, the JSON object
\* of a roll call, one whose vote list is null, a JSON number, or something
\* that is not JSON.
Bodies == {"empty", "json_error", "json_votes", "json_null_votes", "json_number",
           "not_json"}

AttemptTransportFault ==
    /\ call.pc = "attempt"
    /\ \E kind \in {"Timeout", "ConnectionError"}, jitter \in 0..(Ticks - 1) :
          call' = OnTransportFault(call, kind, jitter)
    /\ UNCHANGED <<st, tw>>

AttemptRequestException ==
    /\ call.pc = "attempt"
    /\ call' = OnRequestException(call)
    /\ UNCHANGED <<st, tw>>

Attempt429 ==
    /\ call.pc = "attempt"
    /\ \E header \in RetryAfterHeaders : call' = On429(call, header)
    /\ UNCHANGED <<st, tw>>

AttemptErrorStatus ==
    /\ call.pc = "attempt"
    /\ \E status_code \in {404, 403, 500}, body \in Bodies, json_fault \in JsonFaults :
          call' = OnErrorStatus(call, status_code, body, json_fault)
    /\ UNCHANGED <<st, tw>>

AttemptResponse ==
    /\ call.pc = "attempt"
    /\ \E body \in Bodies, json_fault \in JsonFaults :
          call' = OnResponse(call, 200, body, json_fault)
    /\ UNCHANGED <<st, tw>>

RetryNext ==
    \/ AttemptTransportFault
    \/ AttemptRequestException
    \/ Attempt429
    \/ AttemptErrorStatus
    \/ AttemptResponse

SpecRetry == InitRetry /\ [][RetryNext]_vars

(***************************************************************************)
(* Two calls with the same arguments, run side by side against fetchers    *)
(* whose answers differ only in the status of the APIErrors they raise:    *)
(* where the fetcher of st raises an APIError of any status, the fetcher   *)
(* of tw raises the 404 one. Two runs that differ only in the statuses of  *)
(* their APIErrors have the same tw.                                       *)
(***************************************************************************)
TwinLoopStep ==
    /\ st.pc = tw.pc
    /\ \/ /\ st.pc = "congress_loop"
          /\ st' = CongressLoop(NoFetch(st))
          /\ tw' = CongressLoop(NoFetch(tw))
       \/ /\ st.pc = "session_loop"
          /\ st' = SessionLoop(NoFetch(st))
          /\ tw' = SessionLoop(NoFetch(tw))
       \/ /\ st.pc = "vote_loop"
          /\ ~WillFetch(st)
          /\ ~WillFetch(tw)
          /\ st' = VoteLoopExit(NoFetch(st))
          /\ tw' = VoteLoopExit(NoFetch(tw))
    /\ UNCHANGED call

TwinFetchSuccess ==
    /\ WillFetch(st)
    /\ WillFetch(tw)
    /\ Exists(st)
    /\ \E api_vote_data \in Responses(st.congress, st.vote_number),
          scraped_details \in ScrapedSet(st.vote_number) :
          /\ \/ FindMemberVote(api_vote_data, st.last_name, st.state) = 0
             \/ TotalFinished(st) < MaxMatches
          /\ st' = OnSuccess(st, api_vote_data, scraped_details)
          /\ tw' = OnSuccess(tw, api_vote_data, scraped_details)
    /\ UNCHANGED call

TwinFetchAPIError ==
    /\ WillFetch(st)
    /\ WillFetch(tw)
    /\ \E status_code \in ApiErrorStatuses :
          /\ st' = OnAPIError(st, status_code)
          /\ tw' = OnAPIError(tw, 404)
    /\ UNCHANGED call

TwinFetchValidationError ==
    /\ WillFetch(st)
    /\ WillFetch(tw)
    /\ Exists(st)
    /\ st' = OnValidationError(st)
    /\ tw' = OnValidationError(tw)
    /\ UNCHANGED call

TwinNext ==
    \/ TwinLoopStep
    \/ TwinFetchSuccess
    \/ TwinFetchAPIError
    \/ TwinFetchValidationError

SpecTwin == Init /\ [][TwinNext]_vars

(***************************************************************************)
(* A call with max_votes = 0 (st) and the call with the same criteria and  *)
(* no cap (tw), run side by side against one fetcher: every fetch gets the *)
(* same answer in both.                                                    *)
(***************************************************************************)
InitZeroCap ==
    /\ \E cn \in CongressLists :
          /\ st = InitState("Doe", "TX", cn, 0)
          /\ tw = InitState("Doe", "TX", cn, None)
    /\ call = NoCall

SameFetchAPIError ==
    /\ WillFetch(st)
    /\ WillFetch(tw)
    /\ \E status_code \in ApiErrorStatuses :
          /\ st' = OnAPIError(st, status_code)
          /\ tw' = OnAPIError(tw, status_code)
    /\ UNCHANGED call

ZeroCapNext ==
    \/ TwinLoopStep
    \/ TwinFetchSuccess
    \/ SameFetchAPIError
    \/ TwinFetchValidationError

SpecZeroCap == InitZeroCap /\ [][ZeroCapNext]_vars

(***************************************************************************)
(* Properties.                                                             *)
(***************************************************************************)
\* The record appended by the latest step, when that step matched a member.
LastRecord == st.session_votes[Len(st.session_votes)]
Matched == st.last_outcome = "matched" /\ st.pc = "vote_loop"
Failures == {"404", "api_error"}

\* C1: a 404 that is not the 5th consecutive failed fetch of its session
\* leaves the scan of that session running: the loop is still in the same
\* (congress, session) pair and goes on to fetch the next vote number.
C1_NotFoundKeepsScanning ==
    (st.last_outcome = "404" /\ st.failed_run < 5) =>
        /\ st.pc = "vote_loop"
        /\ WillFetch(st)
        /\ st.congress = st.last_key[1]
        /\ st.session = st.last_key[2]
        /\ st.vote_number = st.last_key[3] + 1

\* Vote 1 matched, votes 2 to 5 were not found, and vote 6 is fetched next.
C1_Witness ==
    /\ st.scenario = "mock"
    /\ st.last_outcome = "404"
    /\ st.last_key[3] = 5
    /\ st.failed_run = 4
    /\ Len(st.session_votes) = 1
    /\ WillFetch(st)
    /\ st.vote_number = 6

\* C2: once 5 consecutive fetches of a pair failed with an APIError of any
\* status, the scan of the pair is done: the loop is never at a fetch with 5
\* failures behind it, the step of the 5th failure hands the session's records
\* to the congress list, and no fetch is made for a pair that was closed.
C2_FiveFailuresEndScan ==
    /\ st.pc = "vote_loop" => st.failed_run < 5
    /\ (st.last_outcome \in Failures /\ st.failed_run >= 5) =>
           /\ st.pc = "session_loop"
           /\ <<st.ci, st.si - 1>> \in st.closed
           /\ Len(st.congress_votes) >= Len(st.session_votes)
           /\ SubSeq(st.congress_votes,
                     Len(st.congress_votes) - Len(st.session_votes) + 1,
                     Len(st.congress_votes)) = st.session_votes
    /\ (st.last_outcome # "none" /\ st.pc \in {"vote_loop", "raised"}) =>
           <<st.ci, st.si>> \notin st.closed

\* The 5th failure in a row is not a 404, and the session had found a record.
C2_Witness ==
    /\ st.last_outcome = "api_error"
    /\ st.failed_run = 5
    /\ st.pc = "session_loop"
    /\ Len(st.session_votes) > 0

\* C3: a run and the run in which every APIError is a 404 fetch the same keys
\* and are in the same program state throughout, returned list included.
C3_StatusBlind ==
    /\ Program(st) = Program(tw)
    /\ st.last_key = tw.last_key

\* A session with a record ends on an APIError that is a 404 in one run and
\* another APIError in the other.
C3_Witness ==
    /\ st.last_outcome = "api_error"
    /\ tw.last_outcome = "404"
    /\ st.failed_run = 5
    /\ Len(st.congress_votes) > 0
    /\ st.congress_votes = tw.congress_votes

\* C4: with a cap N > 0 the returned list has at most N records, and has
\* fewer than N only when no scan was cut short: every session of every
\* congress ran into its 5 consecutive failures.
C4_CapExact ==
    (st.pc = "returned" /\ Truthy(st.max_votes)) =>
        /\ Len(st.result) <= st.max_votes
        /\ Len(st.result) < st.max_votes =>
               st.n_exhausted = Len(Sessions) * Len(st.congress_numbers)

\* max_votes = 3 over [118, 119]: 3 records, the last from congress 119, whose
\* scan was cut short.
C4_Witness ==
    /\ st.pc = "returned"
    /\ st.max_votes = 3
    /\ st.congress_numbers = <<118, 119>>
    /\ Len(st.result) = 3
    /\ st.result[1].congress = 118
    /\ st.result[3].congress = 119
    /\ st.n_exhausted < 4

\* C5: from a state in which the finished records add up to the cap, no step
\* calls the fetcher.
C5_NoFetchAfterCap ==
    [][(Truthy(st.max_votes) /\ TotalFinished(st) >= st.max_votes)
           => st'.last_outcome = "none"]_vars

\* The cap is reached inside session 1 of a congress that is not the last.
C5_Witness ==
    /\ Truthy(st.max_votes)
    /\ st.pc = "vote_loop"
    /\ TotalFinished(st) = st.max_votes
    /\ st.si = 1
    /\ st.ci < Len(st.congress_numbers)
    /\ st.vote_number <= MaxVote

\* The call of the end-to-end scenario.
ScenarioCall == st.congress_numbers = <<118>> /\ st.max_votes = None

\* C6 as stated: against the mock fetcher the call returns exactly 1 record
\* and fetches no vote number above 6.
C6_OneRecord ==
    ScenarioCall =>
        /\ st.scenario # "beyond"
        /\ (st.pc = "returned" /\ st.scenario = "mock") => Len(st.result) = 1

\* C6 amended: against the mock fetcher the call returns exactly 2 records,
\* roll call 1 of session 1 and roll call 1 of session 2, and fetches no vote
\* number above 6.
C6_OneRecordPerSession ==
    ScenarioCall =>
        /\ st.scenario # "beyond"
        /\ (st.pc = "returned" /\ st.scenario = "mock") =>
               /\ Len(st.result) = 2
               /\ st.result[1].roll_call_number = 1
               /\ st.result[2].roll_call_number = 1
               /\ st.closed = {<<1, 1>>, <<1, 2>>}

\* The scenario's call has returned and every fetch was answered by the mock.
C6_Witness ==
    /\ ScenarioCall
    /\ st.pc = "returned"
    /\ st.scenario = "mock"

\* C7: a ValidationError of the fetcher ends the call at the vote number it
\* occurred at: the call has raised it, the caller has no list, and no step
\* follows.
C7_ValidationErrorAborts ==
    /\ [](st.last_outcome = "validation" =>
              /\ st.pc = "raised"
              /\ st.raised = "ValidationError"
              /\ st.result = <<>>
              /\ st.all_votes = <<>>
              /\ st.vote_number = st.last_key[3])
    /\ [][st.pc # "raised"]_vars

\* A ValidationError of the fetcher after records were accumulated.
C7_Witness ==
    /\ st.pc = "raised"
    /\ st.last_outcome = "validation"
    /\ st.discarded > 0

\* C8 as stated: a call raises only when the fetcher raised a fault that is
\* not an APIError.
C8_OnlyFetcherValidationRaises ==
    st.pc = "raised" => st.last_outcome = "validation"

\* C8 amended: a call raises only a ValidationError, and only when the fetcher
\* raised one or the matched record of a successful response does not make a
\* valid VoteRecord; no APIError and no unmatched response makes it raise.
C8_NoAPIErrorSurfaces ==
    st.pc = "raised" =>
        /\ st.raised = "ValidationError"
        /\ \/ st.last_outcome = "validation"
           \/ /\ st.last_outcome = "matched"
              /\ ~VoteRecordValid(MakeVoteRecord(st.last_member_vote, st.last_scraped))

\* A call returned records after all its sessions ran into 5 failed fetches.
C8_Witness ==
    /\ st.pc = "returned"
    /\ st.n_exhausted = Len(Sessions) * Len(st.congress_numbers)
    /\ Len(st.result) > 0

\* C9: the finished record's question is the scraped question when that is
\* not empty, and the raw API question when it is.
C9_QuestionPrecedence ==
    Matched =>
        IF st.last_scraped.question # ""
        THEN LastRecord.question = st.last_scraped.question
        ELSE LastRecord.question = st.last_member_vote.vote_question

\* question "Q_API" from the API, "" from the page.
C9_Witness ==
    /\ Matched
    /\ st.last_scraped.question = ""
    /\ st.last_member_vote.vote_question = "Q_API"
    /\ LastRecord.question = "Q_API"

\* The date C10 states for a raw start date and a scraped date.
C10_StatedDate(scraped_date, start_date) ==
    IF scraped_date # SENTINEL THEN scraped_date
    ELSE IF start_date.is_str /\ DateShape(SplitT0(start_date.chars))
         THEN SplitT0(start_date.chars)
    ELSE SENTINEL

\* C10: the finished record's date is the scraped date when one was found,
\* else the part of the raw start date before "T" when it has the shape
\* YYYY-MM-DD, else 1900-01-01; it has the shape YYYY-MM-DD and the merge
\* never raises because of it.
C10_DatePrecedence ==
    st.last_outcome = "matched" =>
        LET vote_record == MakeVoteRecord(st.last_member_vote, st.last_scraped)
            date == vote_record.date
        IN  /\ st.pc = "vote_loop" => LastRecord.date = date
            /\ st.pc = "raised" =>
                   ~VoteRecordValid([vote_record EXCEPT !.date = SENTINEL])
            /\ date = C10_StatedDate(st.last_scraped.date,
                                     st.last_member_vote.start_date)
            /\ DateShape(date)

\* The spellings of one name or one state, which differ in case only.
CaseClasses ==
    {{"Smith", "SMITH", "smith"}, {"Doe", "DOE", "doe"},
     {"CA", "ca", "Ca"}, {"TX", "tx", "Tx"}}

EqualIgnoringCase(a, b) == a = b \/ \E c \in CaseClasses : a \in c /\ b \in c

\* The entry is the target member's: name and state equal ignoring case.
SameMember(e) ==
    /\ EqualIgnoringCase(e.last_name, st.last_name)
    /\ EqualIgnoringCase(e.vote_state, st.state)

\* The response handed to _find_member_vote holds an entry of the target.
HoldsMember(api_vote_data) ==
    \E i \in 1..Len(api_vote_data) : SameMember(api_vote_data[i])

\* C11: a successful fetch matches exactly when some entry of the response has
\* the criteria's last name and state, both compared ignoring case; the entry
\* it merges is such an entry, and a fetch appends a finished record exactly
\* when its response holds one.
C11_CaseInsensitiveMatch ==
    /\ [](st.last_outcome \in {"matched", "unmatched"} =>
              /\ (st.last_outcome = "matched") <=> HoldsMember(call.api_vote_data)
              /\ st.last_outcome = "matched" => SameMember(st.last_member_vote))
    /\ [][st'.last_outcome \in {"matched", "unmatched"} =>
              Len(st'.session_votes) = Len(st.session_votes) +
                  (IF HoldsMember(call.api_vote_data)' THEN 1 ELSE 0)]_vars

\* Criteria {Smith, ca}, held as {Smith, CA}, match the entry {SMITH, ca}
\* that follows an entry of another state.
C11_Witness ==
    /\ st.last_name = "Smith"
    /\ st.state = "CA"
    /\ Matched
    /\ Len(call.api_vote_data) = 2
    /\ call.api_vote_data[1].last_name = "Smith"
    /\ call.api_vote_data[1].vote_state = "TX"
    /\ st.last_member_vote.last_name = "SMITH"
    /\ st.last_member_vote.vote_state = "ca"
    /\ Len(st.session_votes) = 1

\* A helper call that has returned or raised.
Done(fn) == call.fn = fn /\ call.pc = "done"

\* u is a source reference .../evs/{year}/roll{n}.xml of the clerk's host.
C12_SourceForm(u) ==
    /\ Len(u) >= 9
    /\ u[1] = CLERK
    /\ u[2] = EVS
    /\ \A k \in 3..6 : u[k] \in Digit
    /\ u[7] = ROLL
    /\ \A k \in 8..(Len(u) - 1) : u[k] \in Digit
    /\ u[Len(u)] = XML

\* C12: both derivations map a source reference .../evs/{year}/roll{n}.xml to
\* .../Votes/{year}{n zero-padded to 3 digits}, and map
\* .../evs/2025/roll55.xml to .../Votes/202555.
C12_DisplayUrl ==
    (/\ Done("_generate_rcv_url") \/ Done("_generate_roll_call_url")
     /\ call.source_data_url.is_str
     /\ C12_SourceForm(call.source_data_url.chars)) =>
        LET u == call.source_data_url.chars
        IN  /\ call.result.raised = "none"
            /\ call.result.url =
                   Str(<<u[1], VOTES>> \o SubSeq(u, 3, 6)
                           \o Zfill(SubSeq(u, 8, Len(u) - 1), 3))
            /\ u = <<CLERK, EVS>> \o <<"2", "0", "2", "5">> \o <<ROLL>> \o <<"5", "5">> \o <<XML>> =>
                   call.result.url = Str(<<CLERK, VOTES>> \o <<"2", "0", "2", "5", "5", "5">>)

\* u holds /evs/, a year of 4 digits, /roll, a roll number and .xml after a
\* host.
C13_HasSourceForm(u) ==
    \E i \in 2..Len(u) :
        /\ i + 7 <= Len(u)
        /\ u[i] = EVS
        /\ \A k \in (i + 1)..(i + 4) : u[k] \in Digit
        /\ u[i + 5] = ROLL
        /\ \E q \in (i + 6)..(Len(u) - 1) :
               /\ \A k \in (i + 6)..q : u[k] \in Digit
               /\ u[q + 1] = XML

\* C13: _generate_rcv_url raises ValidationError and returns no URL for a
\* source reference that is not a string, is empty, or does not hold the
\* pattern .../evs/{4-digit year}/roll{digits}.xml.
C13_StrictRaises ==
    (/\ Done("_generate_rcv_url")
     /\ \/ ~call.source_data_url.is_str
        \/ call.source_data_url.chars = <<>>
        \/ ~C13_HasSourceForm(call.source_data_url.chars)) =>
        /\ call.result.raised = "ValidationError"
        /\ call.result.url = NotAStr

\* A reference of the clerk's host with a year of five digits was refused.
C13_Witness ==
    /\ Done("_generate_rcv_url")
    /\ call.source_data_url =
           Str(<<CLERK, EVS>> \o <<"2", "0", "2", "5", "5">> \o <<ROLL>> \o <<"5", "5">> \o <<XML>>)
    /\ call.result.raised = "ValidationError"

\* s is a date of the calendar written YYYY-MM-DD.
IsCalendarDate(s) ==
    /\ DateShape(s)
    /\ LET y == ToInt(SubSeq(s, 1, 4))
           m == ToInt(SubSeq(s, 6, 7))
           d == ToInt(SubSeq(s, 9, 10))
           leap == y % 4 = 0 /\ (y % 100 # 0 \/ y % 400 = 0)
       IN  /\ y >= 1
           /\ m >= 1
           /\ m <= 12
           /\ d >= 1
           /\ d <= <<31, IF leap THEN 29 ELSE 28, 31, 30, 31, 30,
                     31, 31, 30, 31, 30, 31>>[m]

\* C15: extract_vote_details raises nothing, whatever the source reference
\* and the outcome of the page fetch; the date it returns is a YYYY-MM-DD
\* string or 1900-01-01, and it returns empty fields with 1900-01-01 when
\* the URL cannot be derived, the fetch fails or the page is an HTTP error.
C15_EnricherNeverRaises ==
    Done("extract_vote_details") =>
        /\ call.result.raised = "none"
        /\ call.result.details.date = SENTINEL \/ DateShape(call.result.details.date)
        /\ call.result.details.question \in {"", call.fetch.question}
        /\ call.result.details.bill_title \in {"", call.fetch.bill_title}
        /\ (\/ GenerateRcvUrl(call.source_data_url).raised # "none"
            \/ call.fetch.kind # "response"
            \/ call.fetch.status_code >= 400) =>
               call.result.details = NothingScraped

\* The source reference is None and the page fetch would have timed out.
C15_Witness ==
    /\ Done("extract_vote_details")
    /\ call.source_data_url = NotAStr
    /\ call.fetch.kind = "Timeout"
    /\ call.result.details = NothingScraped

\* C16: a date of the calendar written D-Mon-YYYY, M/D/YYYY or YYYY-M-D,
\* padded or not, is returned as the same date written YYYY-MM-DD; a date
\* _extract_date returns is returned unchanged when it is extracted again;
\* text without a date gives the empty string from _extract_date and
\* 1900-01-01 from extract_vote_details, and nothing is raised.
C16_DateNormalization ==
    /\ (Done("_extract_date") /\ call.kind = "rendered") =>
           /\ call.result.date = call.expect
           /\ DateShape(call.result.date)
    /\ (Done("_extract_date") /\ call.result.date # <<>>) =>
           ExtractDate(call.result.date) = call.result.date
    /\ (Done("_extract_date") /\ call.kind = "junk") => call.result.date = <<>>
    /\ (Done("extract_vote_details") /\ ExtractDate(call.fetch.text) = <<>>) =>
           /\ call.result.raised = "none"
           /\ call.result.details.date = SENTINEL

\* 12/31/2024 inside a sentence came back as 2024-12-31.
C16_Witness ==
    /\ Done("_extract_date")
    /\ call.html_content = <<"o", "n", " ">> \o <<"1", "2", "/", "3", "1", "/", "2", "0", "2", "4">> \o <<".">>
    /\ call.result.date = <<"2", "0", "2", "4", "-", "1", "2", "-", "3", "1">>

\* C17: _extract_date returns the empty string or a date of the calendar; a
\* pattern whose first match denotes no date of the calendar (day or month
\* out of range, unknown month) is passed over, and the date returned is that
\* of the first pattern, in the order D-Mon-YYYY, M/D/YYYY, YYYY-M-D, whose
\* first match denotes one.
C17_RealDateOrNextPattern ==
    /\ (Done("_extract_date") /\ call.result.date # <<>>) =>
           IsCalendarDate(call.result.date)
    /\ (Done("_extract_date") /\ call.kind = "composite") =>
           call.result.date = call.expect

\* 31-Feb-2025 and 13/45/2025 were passed over and 2025-1-2, which stands
\* first in the text, was returned.
C17_Witness ==
    /\ Done("_extract_date")
    /\ call.html_content =
           <<"2", "0", "2", "5", "-", "1", "-", "2">> \o <<" ">> \o <<"1", "3", "/", "4", "5", "/", "2", "0", "2", "5">> \o <<" ">> \o <<"3", "1", "-", "F", "e", "b", "-", "2", "0", "2", "5">>
    /\ call.result.date = <<"2", "0", "2", "5", "-", "0", "1", "-", "0", "2">>

\* C14 as stated: a matched entry whose source reference does not hold the
\* pattern evs/{year}/roll{n}.xml is a validation fault, and no finished
\* record is made of it.
C14_UnderivedIsFault ==
    (/\ st.last_outcome = "matched"
     /\ \/ ~st.last_member_vote.source_data_url.is_str
        \/ ~C13_HasSourceForm(st.last_member_vote.source_data_url.chars)) =>
        /\ st.pc = "raised"
        /\ st.raised = "ValidationError"

\* C14 amended: a matched entry whose source reference is a string that does
\* not hold the pattern is no fault; the finished record is appended and
\* carries the source reference itself as its URL. A source reference that
\* is not a string raises ValidationError out of the call.
C14_UnderivedIsCarried ==
    st.last_outcome = "matched" =>
        LET u == st.last_member_vote.source_data_url
        IN  /\ (u.is_str /\ ~C13_HasSourceForm(u.chars)) =>
                   /\ st.pc = "vote_loop"
                   /\ LastRecord.roll_call_vote_url = u
                   /\ LastRecord.roll_call_number = st.last_member_vote.roll_call_number
            /\ ~u.is_str =>
                   /\ st.pc = "raised"
                   /\ st.raised = "ValidationError"

\* A record was finished whose URL is the .html source reference it came with.
C14_Witness ==
    /\ Matched
    /\ st.last_member_vote.source_data_url.is_str
    /\ Len(st.last_member_vote.source_data_url.chars) = 9
    /\ st.last_member_vote.source_data_url.chars[9] = ".html"
    /\ LastRecord.roll_call_vote_url = st.last_member_vote.source_data_url

\* The k-th request of the call and what it produced.
SeenKind(k) == call.seen[k].kind
SeenStatus(k) == call.seen[k].status_code
TransportFaults == {"Timeout", "ConnectionError"}

\* C18: a call makes at most 3 requests; after a timeout or connection fault
\* on request k = 1, 2 it sleeps at least 2^(k-1) and less than 2^(k-1) + 1
\* seconds and makes request k + 1; a response below 400 ends the requests at
\* once; a timeout or connection fault on request 3 raises an APIError
\* without status after 2 sleeps and 3 requests.
C18_TransportRetry ==
    /\ call.requests <= 3
    /\ call.requests = Len(call.seen)
    /\ Len(call.sleeps) <= 2
    /\ call.pc = "attempt" => Len(call.sleeps) = call.requests
    /\ \A k \in 1..Len(call.seen) :
           SeenKind(k) \in TransportFaults =>
               IF k < 3
               THEN /\ Len(call.sleeps) >= k
                    /\ call.sleeps[k] >= Ticks * Pow2(k - 1)
                    /\ call.sleeps[k] < Ticks * Pow2(k - 1) + Ticks
                    /\ k = Len(call.seen) =>
                           /\ call.pc = "attempt"
                           /\ call.attempt = k
               ELSE /\ call.pc = "raised"
                    /\ call.raised = "APIError"
                    /\ call.status_code = NoStatus
                    /\ Len(call.sleeps) = 2
                    /\ call.requests = 3
    /\ call.got_response =>
           /\ call.pc # "attempt"
           /\ SeenStatus(Len(call.seen)) < 400
           /\ Len(call.sleeps) = Len(call.seen) - 1

\* A timeout, then a connection error, then a timeout: two sleeps, the
\* second at least 2 seconds, and an APIError.
C18_Witness ==
    /\ call.pc = "raised"
    /\ Len(call.seen) = 3
    /\ SeenKind(1) = "Timeout"
    /\ SeenKind(2) = "ConnectionError"
    /\ SeenKind(3) = "Timeout"
    /\ call.sleeps[2] >= 2 * Ticks
    /\ call.raised = "APIError"

\* The seconds a 429 response asks to wait: those of its Retry-After header,
\* 60 without one.
C19_RetryAfter(k) ==
    IF call.seen[k].header.kind = "int" THEN call.seen[k].header.value ELSE 60

\* C19: a 429 on request k = 1, 2 is followed by a sleep of the Retry-After
\* duration (60 without the header) and by request k + 1; a call makes at
\* most 3 requests whatever mix of 429s and transport faults it meets; a 429
\* on request 3 raises, without a third sleep, an APIError of status 429.
C19_RateLimit ==
    /\ call.requests <= 3
    /\ \A k \in 1..Len(call.seen) :
           SeenStatus(k) = 429 =>
               IF k < 3
               THEN /\ Len(call.sleeps) >= k
                    /\ call.sleeps[k] = Ticks * C19_RetryAfter(k)
                    /\ k = Len(call.seen) => call.pc = "attempt"
               ELSE /\ call.pc = "raised"
                    /\ call.raised = "APIError"
                    /\ call.status_code = 429
                    /\ Len(call.sleeps) = 2

\* C20: a 404 response ends the call with an APIError of status 404, and any
\* other status >= 400 except 429 with an APIError of that status, on the
\* request it answers and without a sleep after it; the APIError carries the
\* JSON payload of the response when it has one; an APIError raised for a
\* transport fault carries no status.
C20_ErrorStatus ==
    /\ \A k \in 1..Len(call.seen) :
           (SeenStatus(k) >= 400 /\ SeenStatus(k) # 429) =>
               /\ k = Len(call.seen)
               /\ call.pc = "raised"
               /\ call.raised = "APIError"
               /\ call.status_code = SeenStatus(k)
               /\ call.response_data =
                      (IF call.seen[k].body \in {"json_error", "json_votes"}
                       THEN call.seen[k].body ELSE "none")
               /\ Len(call.sleeps) = k - 1
    /\ (/\ call.pc = "raised"
        /\ SeenKind(Len(call.seen)) # "response") =>
           /\ call.raised = "APIError"
           /\ call.status_code = NoStatus

\* The records finished so far, in the order the call holds them.
Finished(s) ==
    CASE s.pc = "vote_loop" -> s.all_votes \o s.congress_votes \o s.session_votes
      [] s.pc = "session_loop" -> s.all_votes \o s.congress_votes
      [] s.pc = "returned" -> s.result
      [] OTHER -> s.all_votes

\* Where the scan stands: the place of the congress in the caller's list,
\* the session and the vote number, as far as they are entered.
Rank(s) ==
    <<s.ci,
      IF s.pc \in {"session_loop", "vote_loop"} THEN s.si ELSE 0,
      IF s.pc = "vote_loop" THEN s.vote_number ELSE 0>>

LexLess(a, b) ==
    \/ a[1] < b[1]
    \/ a[1] = b[1] /\ a[2] < b[2]
    \/ a[1] = b[1] /\ a[2] = b[2] /\ a[3] < b[3]

IsPrefix(a, b) == Len(a) <= Len(b) /\ a = SubSeq(b, 1, Len(a))

\* C23: the scan moves forward only, through the congresses in the order of
\* the caller's list, sessions 1 then 2 within a congress, vote numbers
\* ascending from 1 within a session; every fetch asks for the key the scan
\* stands at; a finished record is added at the end of the records finished
\* before it, and the returned list is those records in that order (cut at
\* the cap).
C23_IterationOrder ==
    [][/\ st'.pc \in {"congress_loop", "session_loop", "vote_loop"} =>
              \/ LexLess(Rank(st), Rank(st'))
              \/ Rank(st) = Rank(st') /\ st'.last_outcome = "none"
       /\ st'.pc \in {"session_loop", "vote_loop"} =>
              st'.congress = st.congress_numbers[st'.ci]
       /\ st'.pc = "vote_loop" =>
              /\ st'.session = st'.si
              /\ st'.si \in {1, 2}
              /\ st.pc = "session_loop" => st'.vote_number = 1
              /\ st.pc = "vote_loop" => st'.vote_number = st.vote_number + 1
       /\ st'.pc = "session_loop" =>
              st'.si = (IF st.pc = "congress_loop" THEN 1 ELSE st.si + 1)
       /\ st'.pc = "congress_loop" => st'.ci = st.ci + 1
       /\ st'.last_outcome # "none" =>
              st'.last_key = <<st.congress_numbers[st.ci], st.si, st.vote_number>>
       /\ st'.pc # "raised" =>
              \/ Finished(st') = Finished(st)
              \/ /\ st'.last_outcome = "matched"
                 /\ Finished(st') = Append(Finished(st), LastRecord')
                 /\ LastRecord'.congress = st'.last_key[1]
                 /\ LastRecord'.roll_call_number = st'.last_key[3]
              \/ /\ st'.pc = "returned"
                 /\ IsPrefix(Finished(st'), Finished(st))
                 /\ Len(Finished(st')) = st.max_votes
      ]_vars

\* A call for congresses 119, 118 returned a record of 119 from session 1,
\* one of 119 from session 2 and then one of 118.
C23_Witness ==
    /\ st.pc = "returned"
    /\ st.congress_numbers = <<119, 118>>
    /\ Len(st.result) = 3
    /\ st.result[1].congress = 119
    /\ st.result[2].congress = 119
    /\ st.result[2].roll_call_number <= st.result[1].roll_call_number
    /\ st.result[3].congress = 118

\* The four invariants C25 states for a finished record.
C25_Stated(r) ==
    /\ r.congress >= 1
    /\ DateShape(r.date)
    /\ r.roll_call_number >= 1
    /\ r.vote_cast # ""

\* C25: every finished record the call holds or has returned has a congress
\* >= 1, a date of the shape YYYY-MM-DD, a roll call number >= 1 and a
\* non-empty vote cast; a matched raw record whose finished record would break
\* one of these raises ValidationError out of the call and is not appended.
C25_RecordInvariants ==
    /\ \A i \in 1..Len(Finished(st)) : C25_Stated(Finished(st)[i])
    /\ (/\ st.last_outcome = "matched"
        /\ ~C25_Stated(MakeVoteRecord(st.last_member_vote, st.last_scraped))) =>
           /\ st.pc = "raised"
           /\ st.raised = "ValidationError"
           /\ st.result = <<>>

\* The outcomes of the two derivations for the source reference of the call
\* in hand: the one the call produced, the other as the code computes it.
C29_Strict ==
    IF call.fn = "_generate_rcv_url"
    THEN [raised |-> call.result.raised, url |-> call.result.url]
    ELSE GenerateRcvUrl(call.source_data_url)

C29_Orchestrator ==
    IF call.fn = "_generate_roll_call_url"
    THEN call.result.url
    ELSE GenerateRollCallUrl(call.source_data_url)

C29_Called == Done("_generate_rcv_url") \/ Done("_generate_roll_call_url")

\* C29 as stated: for every source reference the two derivations end alike,
\* with the same URL or both with a fault.
C29_SameOutcome ==
    C29_Called =>
        /\ C29_Strict.raised = "none"
        /\ C29_Orchestrator = C29_Strict.url

\* C29 amended: where the enricher's derivation returns a URL the
\* orchestrator's returns the same URL; where the enricher's raises
\* ValidationError the orchestrator's raises nothing and returns the source
\* reference as it was given.
C29_SameWhereDerived ==
    C29_Called =>
        IF C29_Strict.raised = "none"
        THEN /\ C29_Orchestrator = C29_Strict.url
             /\ C29_Orchestrator.is_str
             /\ C29_Orchestrator.chars[2] = VOTES
        ELSE /\ C29_Strict.raised = "ValidationError"
             /\ C29_Strict.url = NotAStr
             /\ C29_Orchestrator = call.source_data_url
             /\ call.fn = "_generate_roll_call_url" => call.result.raised = "none"

\* The orchestrator's derivation was given roll055.xml of another host and
\* returned it unchanged, where the enricher's raises ValidationError.
C29_Witness ==
    /\ Done("_generate_roll_call_url")
    /\ call.source_data_url =
           Str(<<"https://host", EVS>> \o <<"2", "0", "2", "5">> \o <<ROLL>> \o <<"0", "5", "5">> \o <<XML>>)
    /\ call.result.url = call.source_data_url
    /\ call.result.raised = "none"
    /\ GenerateRcvUrl(call.source_data_url).raised = "ValidationError"

C28_PacingAfterEverySuccess ==
    /\ st.last_outcome \in {"matched", "unmatched"} => st.sleeps = <<PacingDelay>>
    /\ st.last_outcome \notin {"matched", "unmatched"} => st.sleeps = <<>>

\* C28 amended: the orchestrator sleeps the pacing delay exactly once after
\* each successful fetch whose iteration completes (no match, or a match whose
\* record is valid), and not at all after a failed fetch, after a successful
\* fetch whose matched record raises ValidationError, or in a step without a
\* fetch.
C28_PacingAfterCompletedSuccess ==
    /\ (st.last_outcome \in {"matched", "unmatched"} /\ st.pc # "raised") =>
           st.sleeps = <<PacingDelay>>
    /\ (st.last_outcome \notin {"matched", "unmatched"} \/ st.pc = "raised") =>
           st.sleeps = <<>>
    /\ (st.last_outcome = "matched" /\ st.pc = "raised") =>
           ~VoteRecordValid(MakeVoteRecord(st.last_member_vote, st.last_scraped))

\* A successful fetch matched an entry with an empty vote cast: the call
\* raised and did not sleep.
C28_Witness ==
    /\ st.last_outcome = "matched"
    /\ st.pc = "raised"
    /\ st.last_member_vote.vote_cast = ""
    /\ st.sleeps = <<>>

\* C30: within one (congress, session) scan the first fetch asks for vote 1
\* and every fetch asks for the vote number after the one fetched before it,
\* whatever that fetch ended with: a vote number is asked for at most once,
\* a failed one is not asked for again, and the session's records are those
\* of the successful matching fetches, in ascending roll call number.
C30_EachVoteOnce ==
    /\ [](st.pc = "vote_loop" =>
              /\ \A i \in 1..Len(st.session_votes) :
                     st.session_votes[i].roll_call_number < st.vote_number
              /\ \A i \in 1..Len(st.session_votes), j \in 1..Len(st.session_votes) :
                     i < j => st.session_votes[i].roll_call_number
                                  < st.session_votes[j].roll_call_number)
    /\ [][/\ (st.pc = "session_loop" /\ st'.pc = "vote_loop") => st'.vote_number = 1
          /\ (st.pc = "vote_loop" /\ st'.last_outcome = "none") =>
                 st'.vote_number = st.vote_number
          /\ st'.last_outcome # "none" =>
                 /\ st.pc = "vote_loop"
                 /\ st'.last_key = <<st.congress, st.session, st.vote_number>>
                 /\ st'.pc # "raised" => st'.vote_number = st.vote_number + 1
                 /\ st'.last_outcome \in Failures \cup {"unmatched"} =>
                        st'.session_votes = st.session_votes
                 /\ (st'.last_outcome = "matched" /\ st'.pc # "raised") =>
                        /\ st'.session_votes =
                               Append(st.session_votes, LastRecord')
                        /\ LastRecord'.roll_call_number = st.vote_number
         ]_vars

\* Vote 1 gave a record, vote 2 failed with an APIError that is not a 404:
\* the scan stands at vote 3 and holds the record of vote 1 alone.
C30_Witness ==
    /\ st.pc = "vote_loop"
    /\ st.last_outcome = "api_error"
    /\ st.last_key[3] = 2
    /\ st.vote_number = 3
    /\ Len(st.session_votes) = 1
    /\ st.session_votes[1].roll_call_number = 1

\* C24: a constructed MemberSearchCriteria has a state of exactly 2
\* characters, none of them a lowercase letter, a non-empty last name, a
\* non-empty list of congress numbers and every congress number an integer
\* >= 1; a construction that does not end so raises ValidationError.
C24_CriteriaInvariant ==
    Done("MemberSearchCriteria") =>
        IF call.result.raised = "none"
        THEN /\ call.result.state.is_str
             /\ Len(call.result.state.chars) = 2
             /\ \A i \in 1..Len(call.result.state.chars) :
                    /\ call.result.state.chars[i] # "ß"
                    /\ \A k \in 1..26 : call.result.state.chars[i] # LowerLetters[k]
             /\ call.result.last_name.is_str
             /\ call.result.last_name.chars # <<>>
             /\ call.result.congress_numbers.is_list
             /\ call.result.congress_numbers.items # <<>>
             /\ \A i \in 1..Len(call.result.congress_numbers.items) :
                    /\ call.result.congress_numbers.items[i].is_int
                    /\ call.result.congress_numbers.items[i].value >= 1
        ELSE call.result.raised = "ValidationError"

(***************************************************************************)
(* _parse_vote_response                                                    *)
(***************************************************************************)
Parsed == call.fn = "_parse_vote_response" /\ call.pc = "done"

\* The payload of the call as the claims describe it: whether it is a
\* mapping, which keys it has, the vote list it holds and the first element.
Payload == call.response_data
IsMapping == Payload.kind = "dict"
HasKey(k) == IsMapping /\ k \in DOMAIN Payload.val
VoteValue == IF HasKey(K1) THEN Payload.val[K1] ELSE Payload.val[K2]
VoteList == IF VoteValue.kind = "list" THEN VoteValue.val ELSE <<VoteValue>>
HasVotes == (HasKey(K1) \/ HasKey(K2)) /\ VoteList # <<>>
First == VoteList[1]
Names(fields) == {fields[i] : i \in 1..Len(fields)}
MissingOf(fields, v) == {f \in Names(fields) : f \notin DOMAIN v.val}
HasResults ==
    /\ HasVotes /\ First.kind = "dict"
    /\ MissingOf(core_required_fields, First) = {}
    /\ "results" \in DOMAIN First.val
    /\ First.val["results"].kind = "list"
Results == First.val["results"].val
WellFormed ==
    /\ HasResults
    /\ \A i \in 1..Len(Results) :
           /\ Results[i].kind = "dict"
           /\ MissingOf(member_required_fields, Results[i]) = {}
RaisedValidationError ==
    call.result.raised = "ValidationError" /\ call.result.vote_data_list = <<>>

\* C21: the parser takes the vote list under either key; a payload that is
\* no mapping, has neither key or has an empty vote list raises
\* ValidationError; a list that is returned has one entry per member entry
\* of the first element, in order, each with that member's fields and the
\* metadata of the first element.
C21_ParseContract ==
    Parsed =>
        /\ ~IsMapping => RaisedValidationError
        /\ IsMapping /\ ~HasKey(K1) /\ ~HasKey(K2) => RaisedValidationError
        /\ (HasKey(K1) \/ HasKey(K2)) /\ VoteList = <<>> => RaisedValidationError
        /\ WellFormed => call.result.raised = "none"
        /\ call.result.raised = "none" =>
              /\ WellFormed
              /\ Len(call.result.vote_data_list) = Len(Results)
              /\ \A i \in 1..Len(Results) :
                    LET vote_data == call.result.vote_data_list[i]
                    IN  /\ vote_data.bio_guide_id = Results[i].val["bioguideID"]
                        /\ vote_data.first_name = Results[i].val["firstName"]
                        /\ vote_data.last_name = Results[i].val["lastName"]
                        /\ vote_data.vote_cast = Results[i].val["voteCast"]
                        /\ vote_data.vote_party = Results[i].val["voteParty"]
                        /\ vote_data.vote_state = Results[i].val["voteState"]
                        /\ vote_data.congress = First.val["congress"]
                        /\ vote_data.identifier = First.val["identifier"]
                        /\ vote_data.result = First.val["result"]
                        /\ vote_data.roll_call_number = First.val["rollCallNumber"]
                        /\ vote_data.session_number = First.val["sessionNumber"]
                        /\ vote_data.source_data_url = First.val["sourceDataURL"]
                        /\ vote_data.start_date = First.val["startDate"]
                        /\ vote_data.update_date = First.val["updateDate"]
                        /\ vote_data.vote_question = First.val["voteQuestion"]
                        /\ vote_data.vote_type = First.val["voteType"]

\* A payload with the second key alone and two vote records is parsed into
\* the entries of the first record.
C21_Witness ==
    /\ Parsed
    /\ ~HasKey(K1) /\ HasKey(K2)
    /\ Len(VoteList) = 2
    /\ call.result.raised = "none"
    /\ Len(call.result.vote_data_list) = 2

\* C22: a first element without one of the ten metadata fields raises a
\* ValidationError that names a field it lacks; with the metadata and the
\* results in place, a member entry without one of the six member fields
\* raises a ValidationError that names a field some entry lacks; neither
\* returns a list. A legislation field that is absent is no error and is the
\* empty string in every entry, and with the type or the number absent the
\* derived legislation is Non-Legislative.
C22_MissingFields ==
    Parsed =>
        /\ HasVotes /\ First.kind = "dict"
              /\ MissingOf(core_required_fields, First) # {} =>
              /\ RaisedValidationError
              /\ call.result.message[1] = "Vote metadata missing required field: "
              /\ call.result.message[2] \in MissingOf(core_required_fields, First)
        /\ HasResults /\ (\A i \in 1..Len(Results) : Results[i].kind = "dict")
              /\ (\E i \in 1..Len(Results) :
                     MissingOf(member_required_fields, Results[i]) # {}) =>
              /\ RaisedValidationError
              /\ call.result.message[1] = "Member vote data missing required field: "
              /\ \E i \in 1..Len(Results) :
                    call.result.message[2] \in
                        MissingOf(member_required_fields, Results[i])
        /\ WellFormed =>
              /\ call.result.raised = "none"
              /\ \A i \in 1..Len(call.result.vote_data_list) :
                    LET vote_data == call.result.vote_data_list[i]
                    IN  /\ "legislationNumber" \notin DOMAIN First.val =>
                               vote_data.legislation_number = ""
                        /\ "legislationType" \notin DOMAIN First.val =>
                               vote_data.legislation_type = ""
                        /\ "legislationUrl" \notin DOMAIN First.val =>
                               vote_data.legislation_url = ""
                        /\ "legislationNumber" \notin DOMAIN First.val
                              \/ "legislationType" \notin DOMAIN First.val =>
                               Legislation(vote_data) = <<"Non-Legislative">>

\* A vote record without its legislation type is parsed into entries whose
\* legislation is the sentinel.
C22_Witness ==
    /\ Parsed
    /\ WellFormed
    /\ "legislationType" \notin DOMAIN First.val
    /\ "legislationNumber" \in DOMAIN First.val
    /\ Len(call.result.vote_data_list) = 2
    /\ Legislation(call.result.vote_data_list[2]) = <<"Non-Legislative">>

(***************************************************************************)
(* ApplicationContainer                                                    *)
(***************************************************************************)
Usable(api_key) == KeyGiven(api_key) /\ api_key.text # PLACEHOLDER

\* C26: a client is built only with a credential that is non-empty and not
\* the placeholder, whether passed or read from the environment; without
\* one the access raises ConfigurationError and no client is built; no
\* request carries a missing or placeholder credential.
C26_CredentialChecked ==
    call.fn = "container" =>
        /\ call._api_client.built => Usable(call._api_client.api_key)
        /\ \A i \in 1..Len(call.requests) : Usable(call.requests[i])
        /\ call.op \in {"api_client", "validate_configuration"}
              /\ ~Usable(call._api_key) /\ ~Usable(call.env) =>
              call.raised = "ConfigurationError"

(***************************************************************************)
(* The cap at the three levels                                             *)
(***************************************************************************)
\* C31: with a cap N > 0, the session list holds no more than the budget
\* of the session scan, the congress list with the session list no more
\* than the budget of the congress scan, and all lists together no more
\* than N; a budget passed down is at least 1; and the step that hands a
\* congress's records to the overall list hands over all of them, so the
\* slice all_votes[:max_votes] removes nothing.
C31_BudgetRespected ==
    /\ [](Truthy(st.max_votes) =>
            /\ TotalFinished(st) <= st.max_votes
            /\ Len(st.all_votes) <= st.max_votes
            /\ st.pc \in {"session_loop", "vote_loop"} =>
                  /\ st.c_max_votes >= 1
                  /\ st.c_max_votes = st.max_votes - Len(st.all_votes)
                  /\ Len(st.congress_votes) <= st.c_max_votes
            /\ st.pc = "vote_loop" =>
                  /\ st.s_max_votes >= 1
                  /\ st.s_max_votes = st.c_max_votes - Len(st.congress_votes)
                  /\ Len(st.session_votes) <= st.s_max_votes
            /\ st.pc = "returned" => Len(st.result) <= st.max_votes)
    /\ [][(Truthy(st.max_votes) /\ st.pc = "session_loop"
             /\ st'.pc \in {"congress_loop", "returned"})
            => st'.all_votes = st.all_votes \o st.congress_votes]_vars

\* Cap 3 over two congresses: one record from the first congress, one from
\* session 1 of the second, and session 2 has used up its budget of 1.
C31_Witness ==
    /\ st.max_votes = 3
    /\ st.pc = "vote_loop"
    /\ st.ci = 2 /\ st.si = 2
    /\ Len(st.all_votes) = 1 /\ st.c_max_votes = 2
    /\ Len(st.congress_votes) = 1 /\ st.s_max_votes = 1
    /\ Len(st.session_votes) = 1

C33_ClosedFaultSet ==
    (call.fn = "get_house_vote_members" /\ call.pc = "raised") =>
        call.raised \in {"APIError", "ValidationError"}

(***************************************************************************)
(* One record per successful fetch                                         *)
(***************************************************************************)
\* The places of the target member's entries in the response of the fetch.
C34_Hits ==
    {i \in 1..Len(call.api_vote_data) : SameMember(call.api_vote_data[i])}

\* C34: of the entries of a response that are the target member's, the
\* first in response order is the one that is merged, and it alone: the
\* step appends the one record made of it; a response without such an entry
\* appends nothing; a session holds no more records than it made fetches.
C34_OneRecordPerFetch ==
    /\ []((call.fn = "_find_member_vote" /\ st.last_outcome # "none") =>
            /\ C34_Hits = {} => st.last_outcome = "unmatched"
            /\ C34_Hits # {} =>
                  /\ st.last_outcome = "matched"
                  /\ \E i \in C34_Hits :
                        /\ \A j \in C34_Hits : i <= j
                        /\ st.last_member_vote = call.api_vote_data[i])
    /\ [](st.pc = "vote_loop" => Len(st.session_votes) <= st.vote_number - 1)
    /\ [][/\ (st'.last_outcome = "matched" /\ st'.pc = "vote_loop") =>
                 st'.session_votes =
                     Append(st.session_votes,
                            MakeVoteRecord(st'.last_member_vote, st'.last_scraped))
          /\ st'.last_outcome = "unmatched" =>
                 st'.session_votes = st.session_votes]_vars

\* Two entries of the response are the target member's, in different
\* spellings; the first is the merged one and the session has one record.
C34_Witness ==
    /\ call.fn = "_find_member_vote"
    /\ st.last_outcome = "matched"
    /\ C34_Hits = {1, 2}
    /\ call.api_vote_data[1] # call.api_vote_data[2]
    /\ st.last_member_vote = call.api_vote_data[1]
    /\ Len(st.session_votes) = 1

(***************************************************************************)
(* The calls of the enricher                                               *)
(***************************************************************************)
\* C35: a step whose fetch matched a member calls extract_vote_details
\* once, with the source reference of the matched entry, in the step of
\* that fetch; a step whose fetch failed or matched nobody, and a step
\* without a fetch, calls it not at all.
C35_EnricherOncePerMatch ==
    /\ st.last_outcome = "matched" =>
          /\ st.enriched = <<st.last_member_vote.source_data_url>>
          /\ st.last_key[3] >= 1
          /\ st.last_member_vote.roll_call_number \in {0, st.last_key[3]}
    /\ st.last_outcome # "matched" => st.enriched = <<>>

\* The second match of a session: one call of the enricher in its step,
\* with the reference of roll call 2.
C35_Witness ==
    /\ st.last_outcome = "matched"
    /\ st.pc = "vote_loop"
    /\ Len(st.session_votes) = 2
    /\ st.last_key[3] = 2
    /\ st.enriched = <<GoodMeta(st.last_key[1], 2).source_data_url>>

(***************************************************************************)
(* Scan state from pair to pair                                            *)
(***************************************************************************)
\* The (congress, session) pairs of the call.
C36_Pairs == (1..Len(st.congress_numbers)) \X (1..Len(Sessions))

\* C36: the scan of every (congress, session) pair starts at vote number 1
\* with 0 consecutive failures and an empty session list, however the scan
\* before it ended; while the cap is not reached, the next session of the
\* congress and the next congress of the list are entered, also after scans
\* that ended with 5 consecutive failures and no record; a call that
\* returns short of its cap has scanned every pair.
C36_FreshScanPerPair ==
    /\ [][(st.pc = "session_loop" /\ st'.pc = "vote_loop") =>
             /\ st'.vote_number = 1
             /\ st'.consecutive_failures = 0
             /\ st'.session_votes = <<>>
             /\ st'.session = Sessions[st.si]
             /\ st'.congress = st.congress]_vars
    /\ [][(st.pc = "session_loop" /\ st.si <= Len(Sessions)
             /\ ~(Truthy(st.max_votes) /\ TotalFinished(st) >= st.max_votes))
            => st'.pc = "vote_loop"]_vars
    /\ [][(st.pc = "congress_loop" /\ st.ci <= Len(st.congress_numbers)
             /\ ~(Truthy(st.max_votes) /\ TotalFinished(st) >= st.max_votes))
            => /\ st'.pc = "session_loop"
               /\ st'.congress = st.congress_numbers[st.ci]
               /\ st'.si = 1]_vars
    /\ []((st.pc = "returned"
             /\ ~(Truthy(st.max_votes) /\ Len(st.result) >= st.max_votes))
            => st.closed = C36_Pairs)

\* Both sessions of the first congress ended with 5 consecutive failures
\* and no record; the scan of the second congress starts afresh.
C36_Witness ==
    /\ st.pc = "vote_loop"
    /\ st.ci = 2 /\ st.si = 1
    /\ st.n_exhausted = 2
    /\ st.all_votes = <<>>
    /\ st.vote_number = 1
    /\ st.consecutive_failures = 0

(***************************************************************************)
(* Termination                                                             *)
(***************************************************************************)
\* C37: against a service at which every pair has finitely many vote
\* numbers that can be fetched (from MaxVote on every fetch raises an
\* APIError), the call returns or raises; once the finished records add up
\* to a cap N > 0 the call returns; and the scan of a session ends, short of
\* an exception, only with 5 consecutive failed fetches behind it or with
\* its budget used up.
C37_Termination ==
    /\ <>(st.pc \in {"returned", "raised"})
    /\ (Truthy(st.max_votes) /\ TotalFinished(st) >= st.max_votes)
          ~> (st.pc = "returned")
    /\ [][(st.pc = "vote_loop" /\ st'.pc = "session_loop") =>
             \/ st'.failed_run >= max_consecutive_failures
             \/ (Truthy(st.s_max_votes)
                   /\ Len(st.session_votes) >= st.s_max_votes)]_vars

\* An uncapped call has returned three records after both of its scans ran
\* into 5 consecutive failures.
C37_Witness ==
    /\ st.pc = "returned"
    /\ st.max_votes = None
    /\ st.n_exhausted = 2
    /\ st.closed = {<<1, 1>>, <<1, 2>>}
    /\ Len(st.result) = 3

====
